---- MODULE Spec2Model ----
(***************************************************************************)
(* Animation data loading, caching and indexing: CacheManager,             *)
(* ReplicationManager, EntityPathManager, StatisticsManager and the        *)
(* AnimationData facade, as a state machine.                               *)
(*                                                                         *)
(* The program runs on one JavaScript thread.  An async function runs      *)
(* synchronously up to its first await; every await is a suspension point  *)
(* and the code after it is a separate step.  A step of this model is      *)
(* either the synchronous part of a call of the public API or the          *)
(* continuation of one suspended await.                                    *)
(*                                                                         *)
(* Strings built from templates are tuples of their segments, the empty    *)
(* string is the empty tuple.  An optional value is a sequence of length   *)
(* at most one: <<>> is undefined, <<v>> is v.                             *)
(***************************************************************************)
EXTENDS Integers, Sequences, FiniteSets, TLC

(***************************************************************************)
(* Bounds of the model.                                                    *)
(***************************************************************************)
\* Top-level asynchronous calls (discovery, activation, range load) in flight.
MaxCalls == 2
\* Calls the application makes in one behaviour.
MaxOps == 3
\* Reads and directory listings that fail in one behaviour.
MaxFaults == 1
\* Bits of the significand of a number (a JavaScript number has 53).
SignificandBits == 6

(***************************************************************************)
(* Optional values and Map operations.                                     *)
(***************************************************************************)
None == <<>>
Some(v) == <<v>>

MapHas(m, k) == k \in DOMAIN m
MapSet(m, k, v) == [x \in DOMAIN m \cup {k} |-> IF x = k THEN v ELSE m[x]]
MapDelete(m, k) == [x \in DOMAIN m \ {k} |-> m[x]]
EmptyMap == [x \in {} |-> 0]
MapSize(m) == Cardinality(DOMAIN m)
SeqToSet(s) == {s[i] : i \in DOMAIN s}

(***************************************************************************)
(* Numbers.  A JavaScript number is a binary floating-point value: every   *)
(* arithmetic operation returns the exact result rounded to the nearest    *)
(* value with SignificandBits significant bits, ties to the even           *)
(* significand.  The numbers of the documents are integers that need no    *)
(* rounding; the result of an operation is a fraction n/d in lowest terms. *)
(* The exponent is not bounded: nothing here overflows or underflows.      *)
(***************************************************************************)
Abs(i) == IF i < 0 THEN 0 - i ELSE i

RECURSIVE Pow2(_)
Pow2(k) == IF k <= 0 THEN 1 ELSE 2 * Pow2(k - 1)

RECURSIVE Gcd(_, _)
Gcd(a, b) == IF b = 0 THEN a ELSE Gcd(b, a % b)

\* The fraction n/d in lowest terms with a positive denominator.
Fraction(n, d) ==
    LET g == Gcd(Abs(n), Abs(d))
        sign == IF d < 0 THEN 0 - 1 ELSE 1
    IN  [n |-> (sign * n) \div g, d |-> (sign * d) \div g]

\* A number of a document.
NumberOf(i) == [n |-> i, d |-> 1]

\* The exponent e with 2^(SignificandBits-1) <= (n/d) / 2^e < 2^SignificandBits,
\* for n/d > 0.
RECURSIVE Exponent(_, _)
Exponent(n, d) ==
    IF n >= d * Pow2(SignificandBits) THEN Exponent(n, 2 * d) + 1
    ELSE IF n < d * Pow2(SignificandBits - 1) THEN Exponent(2 * n, d) - 1
    ELSE 0

\* Rounding to the nearest representable number, ties to even.
RoundToNearest(q) ==
    IF q.n = 0 THEN q
    ELSE LET e == Exponent(Abs(q.n), q.d)
             num == Abs(q.n) * Pow2(0 - e)
             den == q.d * Pow2(e)
             m == num \div den
             up == \/ 2 * (num % den) > den
                   \/ 2 * (num % den) = den /\ m % 2 = 1
             significand == IF up THEN m + 1 ELSE m
             sign == IF q.n < 0 THEN 0 - 1 ELSE 1
         IN  Fraction(sign * significand * Pow2(e), Pow2(0 - e))

\* a + b, a - b, a * b, a / b and Math.abs(a) on numbers.
Plus(a, b) == RoundToNearest(Fraction(a.n * b.d + b.n * a.d, a.d * b.d))
Minus(a, b) == RoundToNearest(Fraction(a.n * b.d - b.n * a.d, a.d * b.d))
Times(a, b) == RoundToNearest(Fraction(a.n * b.n, a.d * b.d))
Divide(a, b) == RoundToNearest(Fraction(a.n * b.d, a.d * b.n))
MathAbs(a) == [a EXCEPT !.n = Abs(@)]

\* a < b and a <= b on numbers.
Less(a, b) == a.n * b.d < b.n * a.d
LessEq(a, b) == a.n * b.d <= b.n * a.d

(***************************************************************************)
(* The study on disk: the 'replications' directory, the documents and the  *)
(* paths the code builds for them.                                         *)
(***************************************************************************)
EmptyPath == <<>>
ManifestPath(dirName) == <<"replications", dirName, "animation_manifest", dirName>>
HardcodedBatchPath(dirName) == <<"replications", dirName, "entity_paths", "batch_001_rep001">>
BatchPath(dirName, file) == <<"replications", dirName, "entity_paths", file>>
StatPath(dirName, file) == <<"replications", dirName, "statistics", file>>
ModelLayoutPath == <<"model_layout">>
VisualConfigPath == <<"shared_visual_config">>

(***************************************************************************)
(* Directory entries of 'replications', in listing order.  Names are kept  *)
(* as strings and spelled out in Chars for the name pattern.               *)
(***************************************************************************)
DirListing ==
    << [name |-> "REP_1", isDirectory |-> TRUE],
       [name |-> "notes_rep_9", isDirectory |-> FALSE],
       [name |-> "archive", isDirectory |-> TRUE],
       [name |-> "rep_001", isDirectory |-> TRUE],
       [name |-> "rep_002", isDirectory |-> TRUE] >>

Chars(name) ==
    CASE name = "rep_001" -> <<"r", "e", "p", "_", "0", "0", "1">>
      [] name = "rep_002" -> <<"r", "e", "p", "_", "0", "0", "2">>
      [] name = "REP_1" -> <<"R", "E", "P", "_", "1">>
      [] name = "notes_rep_9" -> <<"n", "o", "t", "e", "s", "_", "r", "e", "p", "_", "9">>
      [] name = "archive" -> <<"a", "r", "c", "h", "i", "v", "e">>

Digits == <<"0", "1", "2", "3", "4", "5", "6", "7", "8", "9">>
IsDigit(c) == \E i \in DOMAIN Digits : Digits[i] = c
DigitValue(c) == (CHOOSE i \in DOMAIN Digits : Digits[i] = c) - 1
LowerCase(c) == CASE c = "R" -> "r" [] c = "E" -> "e" [] c = "P" -> "p" [] OTHER -> c

\* Length of the run of digits of cs that starts at position i.
RECURSIVE DigitRun(_, _)
DigitRun(cs, i) ==
    IF i <= Len(cs) /\ IsDigit(cs[i]) THEN 1 + DigitRun(cs, i + 1) ELSE 0

\* parseInt(digits, 10) of cs[i .. i + n - 1].
RECURSIVE ParseInt(_, _, _)
ParseInt(cs, i, n) ==
    IF n = 0 THEN 0 ELSE ParseInt(cs, i, n - 1) * 10 + DigitValue(cs[i + n - 1])

\* Positions where /rep_0*(\d+)/i matches: "rep_" in any case, then a digit.
MatchesAt(cs, i) ==
    /\ i + 4 <= Len(cs)
    /\ <<LowerCase(cs[i]), LowerCase(cs[i + 1]), LowerCase(cs[i + 2]), cs[i + 3]>>
         = <<"r", "e", "p", "_">>
    /\ DigitRun(cs, i + 4) > 0

\* dirName.match(/rep_0*(\d+)/i) and parseInt(repIdMatch[1], 10): the leftmost
\* match; 0* and \d+ together take the whole run of digits after "rep_".
RepIdMatch(name) ==
    LET cs == Chars(name)
        at == {i \in DOMAIN cs : MatchesAt(cs, i)}
    IN  IF at = {} THEN None
        ELSE LET i == CHOOSE j \in at : \A k \in at : j <= k
             IN  Some(ParseInt(cs, i + 4, DigitRun(cs, i + 4)))

(***************************************************************************)
(* The documents.  A batch document lists entities with raw path points    *)
(* (time, x, y, activity, state); a manifest lists its batch and           *)
(* statistics files; a statistics document holds one time series.          *)
(***************************************************************************)
Pt(t, x, y, a, s) == [time |-> t, x |-> x, y |-> y, activity |-> a, state |-> s]

Batch1 ==
    [entities |->
       << [id |-> "E1", type |-> "Customer",
           path |-> <<Pt(0, 0, 0, "", "idle"), Pt(10, 10, 0, "ASP", "moving")>>],
          [id |-> "E2", type |-> "Cart",
           path |-> <<Pt(5, 1, 1, "EMA", "waiting"), Pt(25, 5, 9, "", "moving"),
                      Pt(32, 7, 9, "AEP", "done")>>] >>]

Batch1b ==
    [entities |->
       << [id |-> "E4", type |-> "Customer",
           path |-> <<Pt(22, 0, 0, "", "idle"), Pt(38, 8, 8, "", "done")>>] >>]

\* Replication 2 reuses the id E1, here with no path point at all.
Batch2 ==
    [entities |->
       << [id |-> "E1", type |-> "Customer", path |-> <<>>],
          [id |-> "E3", type |-> "Cart",
           path |-> <<Pt(12, 3, 3, "", "waiting"), Pt(18, 4, 3, "", "moving")>>] >>]

StatInfo(ty, comp, metric, file) ==
    [type |-> ty, componentId |-> comp, metricName |-> metric, filePath |-> file,
     timeStart |-> 0, timeEnd |-> 10]

Manifest1 ==
    [metadata |-> [simulationId |-> "sim", replication |-> 1, duration |-> 40],
     entityPathDataFiles |->
       << [filePath |-> BatchPath("rep_001", "batch_001_rep001"),
           entryTimeStart |-> 0, entryTimeEnd |-> 20],
          [filePath |-> BatchPath("rep_001", "batch_002_rep001"),
           entryTimeStart |-> 20, entryTimeEnd |-> 40] >>,
     statisticsDataFiles |->
       << StatInfo("activity_metric", "act1", "queueLength", StatPath("rep_001", "queue")),
          StatInfo("resource_metric", "res1", "utilization", StatPath("rep_001", "util")) >>]

Manifest2 ==
    [metadata |-> [simulationId |-> "sim", replication |-> 2, duration |-> 30],
     entityPathDataFiles |->
       << [filePath |-> BatchPath("rep_002", "batch_001_rep001"),
           entryTimeStart |-> 0, entryTimeEnd |-> 30] >>,
     statisticsDataFiles |->
       << StatInfo("activity_metric", "act1", "queueLength", StatPath("rep_002", "queue")) >>]

\* The directory REP_1 holds an older export of replication 1: a manifest
\* without statistics, and a batch file that is valid JSON without "entities".
BatchOld == [metadata |-> [batchId |-> "old"]]

\* A batch file written half by the current exporter and half by the older
\* one: its second entity has "points" (x, y, t) where the loader reads "path".
BatchMixed ==
    [entities |->
       << [id |-> "E5", type |-> "Cart",
           path |-> <<Pt(2, 6, 6, "", "idle"), Pt(8, 6, 2, "", "moving")>>],
          [id |-> "E6", type |-> "Cart", points |-> <<[x |-> 0, y |-> 0, t |-> 3]>>] >>]

Manifest1Dup ==
    [metadata |-> [simulationId |-> "sim", replication |-> 1, duration |-> 15],
     entityPathDataFiles |-> <<>>,
     statisticsDataFiles |-> <<>>]

TsPt(t, v) == [time |-> t, value |-> v]

\* The statistics documents of replication 1 have the declared shape
\* (StatisticsData): type, componentId and metricName are under metadata.
StatMeta(ty, comp, metric, rep) ==
    [type |-> ty, componentId |-> comp, metricName |-> metric, simulationId |-> "sim",
     replication |-> rep, timeStart |-> 0, timeEnd |-> 10, timeUnit |-> "min"]

StatQueue1 ==
    [metadata |-> StatMeta("activity_metric", "act1", "queueLength", 1),
     summary |-> [min |-> 2, max |-> 8, mean |-> 5, median |-> 5, stdDev |-> 3, count |-> 2],
     timeSeries |-> <<TsPt(0, 2), TsPt(10, 8)>>]

StatUtil1 ==
    [metadata |-> StatMeta("resource_metric", "res1", "utilization", 1),
     summary |-> [min |-> 0, max |-> 9, mean |-> 4, median |-> 4, stdDev |-> 2, count |-> 3],
     timeSeries |-> <<TsPt(0, 4), TsPt(4, 6), TsPt(10, 1)>>]

\* The statistics document of replication 2 states them at the top level,
\* where loadStatisticsFile reads them.
StatQueue2 ==
    [type |-> "activity_metric", componentId |-> "act1", metricName |-> "queueLength",
     summary |-> [min |-> 2, max |-> 8, mean |-> 5, median |-> 5, stdDev |-> 3, count |-> 2],
     timeSeries |-> <<TsPt(0, 2), TsPt(10, 8)>>]

\* A second statistics file of replication 2, in the same flat shape; its
\* manifest does not list it.  The series ends with a step: two points at
\* time 70.  Its summary was computed over the samples of the run, of which
\* the series keeps three.
StatUtil2 ==
    [type |-> "resource_metric", componentId |-> "res1", metricName |-> "utilization",
     summary |-> [min |-> 0, max |-> 70, mean |-> 20, median |-> 4, stdDev |-> 30, count |-> 9],
     timeSeries |-> <<TsPt(1, 68), TsPt(70, 1), TsPt(70, 4)>>]

LayoutDoc == [simulationId |-> "sim", kind |-> "layout"]
VisualDoc == [simulationId |-> "sim", kind |-> "visual"]

\* The files of the study.  Every other path is read as a miss.
Files ==
    { ManifestPath("rep_001"), ManifestPath("rep_002"), ManifestPath("REP_1"),
      BatchPath("rep_001", "batch_001_rep001"), BatchPath("rep_001", "batch_002_rep001"),
      BatchPath("rep_002", "batch_001_rep001"), BatchPath("REP_1", "batch_001_rep001"),
      BatchPath("rep_002", "batch_mixed"),
      StatPath("rep_001", "queue"), StatPath("rep_001", "util"), StatPath("rep_002", "queue"),
      StatPath("rep_002", "util"),
      ModelLayoutPath, VisualConfigPath }

\* JSON.parse of the text of a file.
DocOf(path) ==
    CASE path = ManifestPath("rep_001") -> Manifest1
      [] path = ManifestPath("rep_002") -> Manifest2
      [] path = ManifestPath("REP_1") -> Manifest1Dup
      [] path = BatchPath("rep_001", "batch_001_rep001") -> Batch1
      [] path = BatchPath("rep_001", "batch_002_rep001") -> Batch1b
      [] path = BatchPath("rep_002", "batch_001_rep001") -> Batch2
      [] path = BatchPath("REP_1", "batch_001_rep001") -> BatchOld
      [] path = BatchPath("rep_002", "batch_mixed") -> BatchMixed
      [] path = StatPath("rep_001", "queue") -> StatQueue1
      [] path = StatPath("rep_001", "util") -> StatUtil1
      [] path = StatPath("rep_002", "queue") -> StatQueue2
      [] path = StatPath("rep_002", "util") -> StatUtil2
      [] path = ModelLayoutPath -> LayoutDoc
      [] path = VisualConfigPath -> VisualDoc

(***************************************************************************)
(* State.                                                                  *)
(***************************************************************************)
VARIABLES
    jsonCache,               \* CacheManager.jsonCache: path -> parsed object
    availableReplications,   \* ReplicationManager: replication id -> manifest object
    activeReplicationId,     \* ReplicationManager: None or Some(id)
    modelLayout,             \* ReplicationManager: None or Some(object)
    sharedVisualConfig,      \* ReplicationManager: None or Some(object)
    patched,                 \* manifest objects whose entityPathDataFiles was reassigned
    loadedEntityPathBatches, \* EntityPathManager: file path -> batch object
    entityPathsById,         \* EntityPathManager: entity id -> EntityPath
    timelineIndex,           \* EntityPathManager: bucket -> set of entity ids
    statisticsData,          \* StatisticsManager: statistic key -> statistics object
    loadedStatisticsFiles,   \* StatisticsManager: file path -> statistics object
    readSeq,                 \* Storage Reader: readFileAsText calls served per path
    readCount,               \* read-counting stub: reads per path since the cache lost it
    frames,                  \* suspended loader calls (awaiting a read or a fetch)
    calls,                   \* suspended top-level calls, by slot
    used,                    \* calls made and failures served so far
    last,                    \* the step just taken: call, argument, result, effects
    returned                 \* path -> document its loads returned since the last clearCache

vars ==
    <<jsonCache, availableReplications, activeReplicationId, modelLayout,
      sharedVisualConfig, patched, loadedEntityPathBatches, entityPathsById,
      timelineIndex, statisticsData, loadedStatisticsFiles, readSeq, readCount,
      frames, calls, used, last, returned>>

\* A parsed object: JSON.parse makes a new object on every call, so an object
\* is named by the read whose text it was parsed from.
Ref(path, n) == [path |-> path, n |-> n]

\* The program state as one record, threaded through the statements of a step.
\* ok turns FALSE when the step leaves the bounds of the model; log collects the
\* effects of the step in program order.
Cur ==
    [jsonCache |-> jsonCache, availableReplications |-> availableReplications,
     activeReplicationId |-> activeReplicationId, modelLayout |-> modelLayout,
     sharedVisualConfig |-> sharedVisualConfig, patched |-> patched,
     loadedEntityPathBatches |-> loadedEntityPathBatches,
     entityPathsById |-> entityPathsById, timelineIndex |-> timelineIndex,
     statisticsData |-> statisticsData, loadedStatisticsFiles |-> loadedStatisticsFiles,
     readSeq |-> readSeq, readCount |-> readCount, frames |-> frames, calls |-> calls,
     used |-> used, ok |-> TRUE, log |-> <<>>]

\* One more call of the application; one more failure of the storage.
App == [Cur EXCEPT !.used.ops = @ + 1, !.ok = used.ops < MaxOps]
Fault(s) == [s EXCEPT !.used.faults = @ + 1, !.ok = @ /\ s.used.faults < MaxFaults]
Served(s, outcome) == IF outcome = "json" THEN s ELSE Fault(s)

Ev(e, path, id) == [e |-> e, path |-> path, id |-> id]
Log(s, e, path, id) == [s EXCEPT !.log = Append(@, Ev(e, path, id))]

\* The result of a step: op and arg name the call, ret is "pending" while the
\* call is suspended and otherwise what it returned, val the object returned.
Last(s, op, arg, ret, val) ==
    [op |-> op, arg |-> arg, ret |-> ret, val |-> val, log |-> s.log]

\* The three loads that return a parsed document.
LoadOps == {"fetchAndParseJSON", "loadEntityPathBatch", "loadStatisticsFile"}

\* What the caller of the loads has seen: forgotten at every clearCache.
Returned(l) ==
    IF l.op = "clearCache" THEN [p \in DOMAIN returned |-> None]
    ELSE IF l.op \in LoadOps /\ l.ret = "value" /\ l.val # None THEN [returned EXCEPT ![l.arg] = l.val]
    ELSE returned

Commit(s, l) ==
    \E t \in {s}, r \in {l} :
        /\ t.ok
        /\ jsonCache' = t.jsonCache
        /\ availableReplications' = t.availableReplications
        /\ activeReplicationId' = t.activeReplicationId
        /\ modelLayout' = t.modelLayout
        /\ sharedVisualConfig' = t.sharedVisualConfig
        /\ patched' = t.patched
        /\ loadedEntityPathBatches' = t.loadedEntityPathBatches
        /\ entityPathsById' = t.entityPathsById
        /\ timelineIndex' = t.timelineIndex
        /\ statisticsData' = t.statisticsData
        /\ loadedStatisticsFiles' = t.loadedStatisticsFiles
        /\ readSeq' = t.readSeq
        /\ readCount' = t.readCount
        /\ frames' = t.frames
        /\ calls' = t.calls
        /\ used' = t.used
        /\ last' = r
        /\ returned' = Returned(r)

(***************************************************************************)
(* Storage Reader.                                                         *)
(***************************************************************************)
\* What readFileAsText can resolve to: the text of the file, undefined (the
\* read failed), the empty string, or text that is not JSON.
ReadOutcomes == {"json", "undefined", "empty", "garbage"}

\* if (content): undefined and "" are falsy.
Truthy(outcome) == outcome \in {"json", "garbage"}
\* JSON.parse(content) returns rather than throws.
Parses(outcome) == outcome = "json"

\* reader.readFileAsText(path) is called: the read is now pending.
IssueRead(s, path) ==
    LET n == s.readSeq[path] + 1
    IN  Log([s EXCEPT !.readSeq[path] = n, !.readCount[path] = @ + 1], "read", path, n)

(***************************************************************************)
(* CacheManager.                                                           *)
(***************************************************************************)
Frame(kind, path, st, seq, val, owner) ==
    [kind |-> kind, path |-> path, st |-> st, seq |-> seq, val |-> val, owner |-> owner]

AddFrame(s, f) == [s EXCEPT !.frames = @ \cup {f}, !.ok = @ /\ f \notin s.frames]

\* fetchAndParseJSON up to its await, called from a loader of the given kind:
\* a cached object is returned at once, otherwise the read is issued.
\* Variant: a cache that is never consulted.
CacheNeverHit(s, path) == FALSE

CacheHit(s, path) == MapHas(s.jsonCache, path)

FetchStart(s, kind, path, owner) ==
    IF CacheHit(s, path)
    THEN AddFrame(s, Frame(kind, path, "fetched", 0, Some(s.jsonCache[path]), owner))
    ELSE LET r == IssueRead(s, path)
         IN  AddFrame(r, Frame(kind, path, "reading", r.readSeq[path], None, owner))

\* Variant: the text is stored without the parse having succeeded.
FetchResultUnparsed(f, outcome) ==
    IF Truthy(outcome) THEN Some(Ref(f.path, f.seq)) ELSE None

\* fetchAndParseJSON after its await: parse, store, return.
FetchResult(f, outcome) ==
    IF Truthy(outcome) /\ Parses(outcome) THEN Some(Ref(f.path, f.seq)) ELSE None

FetchFinish(s, f, outcome) ==
    LET val == FetchResult(f, outcome)
    IN  IF val # None
        THEN Log([s EXCEPT !.jsonCache = MapSet(@, f.path, val[1])], "cacheSet", f.path, f.seq)
        ELSE s

\* clearCache(path?): arg is None when no argument is passed.
ClearCacheOn(s, arg) ==
    IF arg # None /\ arg[1] # EmptyPath
    THEN Log([s EXCEPT !.jsonCache = MapDelete(@, arg[1]),
                       !.readCount = [p \in DOMAIN @ |-> IF p = arg[1] THEN 0 ELSE @[p]]],
             "cacheDelete", arg[1], 0)
    ELSE Log([s EXCEPT !.jsonCache = EmptyMap,
                       !.readCount = [p \in DOMAIN @ |-> 0]],
             "cacheClear", EmptyPath, 0)

getCacheSize == MapSize(jsonCache)

(***************************************************************************)
(* Objects.  Only a manifest object is ever written to after it was        *)
(* parsed: discovery reassigns its entityPathDataFiles.                    *)
(***************************************************************************)
\* manifestData.entityPathDataFiles = [{filePath: `replications/${dirName}/
\* entity_paths/batch_001_rep001.json`, entryTimeStart: 0, entryTimeEnd: duration}]
HardcodedFiles(dirName, duration) ==
    << [filePath |-> HardcodedBatchPath(dirName), entryTimeStart |-> 0,
        entryTimeEnd |-> duration] >>

ContentOf(s, ref) ==
    LET d == DocOf(ref.path)
    IN  IF ref \in s.patched
        THEN [d EXCEPT !.entityPathDataFiles = HardcodedFiles(ref.path[2], d.metadata.duration)]
        ELSE d

(***************************************************************************)
(* ReplicationManager: activation.                                         *)
(***************************************************************************)
\* getActiveReplication(): None or Some(manifest object).
getActiveReplication(s) ==
    IF s.activeReplicationId = None THEN None
    ELSE IF MapHas(s.availableReplications, s.activeReplicationId[1])
         THEN Some(s.availableReplications[s.activeReplicationId[1]])
         ELSE None

\* getActiveReplicationId(): None or Some(id).
getActiveReplicationId(s) == s.activeReplicationId

\* Variant: the metadata of the manifest with the lowest id of the catalog.
MetadataOfLowestId(s) ==
    IF s.activeReplicationId = None THEN None
    ELSE LET ids == DOMAIN s.availableReplications
             low == CHOOSE n \in ids : \A k \in ids : n <= k
         IN  Some(DocOf(s.availableReplications[low].path).metadata)

\* getActiveReplicationMetadata(): replication?.metadata, None or Some(metadata).
getActiveReplicationMetadata(s) ==
    IF s.activeReplicationId = None THEN None
    ELSE IF MapHas(s.availableReplications, s.activeReplicationId[1])
         THEN Some(DocOf(s.availableReplications[s.activeReplicationId[1]].path).metadata)
         ELSE None

\* Variant: every positive id is accepted.
AcceptsAnyId(s, replicationId) == replicationId > 0

setActiveReplicationIdOk(s, replicationId) == MapHas(s.availableReplications, replicationId)

setActiveReplicationId(s, replicationId) ==
    IF ~setActiveReplicationIdOk(s, replicationId) THEN s
    ELSE Log([s EXCEPT !.activeReplicationId = Some(replicationId)],
             "setActive", EmptyPath, replicationId)

(***************************************************************************)
(* EntityPathManager.                                                      *)
(***************************************************************************)
BUCKET_SIZE == 10

\* point.activity || undefined
ToPathPoint(point) ==
    [clock |-> point.time, x |-> point.x, y |-> point.y,
     event |-> IF point.activity = "" THEN None ELSE Some(point.activity),
     state |-> point.state]

ToEntityPath(entity) ==
    [entityId |-> entity.id, type |-> entity.type,
     path |-> [i \in 1..Len(entity.path) |-> ToPathPoint(entity.path[i])]]

\* entity.path.map(...) throws a TypeError when the entity has no "path".
HasPath(entity) == "path" \in DOMAIN entity

\* for (const entity of batchData.entities) entityPathsById.set(entity.id, ...):
\* the loop ends at the first entity whose conversion throws.
RECURSIVE MergeEntities(_, _, _)
MergeEntities(byId, entities, i) ==
    IF i > Len(entities) \/ ~HasPath(entities[i]) THEN byId
    ELSE MergeEntities(MapSet(byId, entities[i].id, ToEntityPath(entities[i])), entities, i + 1)

\* Math.floor(clock / BUCKET_SIZE)
BucketOf(clock) == clock \div BUCKET_SIZE

\* The buckets updateTimelineIndex adds an entity to.
BucketsOf(entityPath) ==
    IF Len(entityPath.path) = 0 THEN {}
    ELSE BucketOf(entityPath.path[1].clock) ..
         BucketOf(entityPath.path[Len(entityPath.path)].clock)

\* updateTimelineIndex(entityPaths): adds to the index, never removes.
updateTimelineIndex(index, entityPaths) ==
    LET added == UNION {BucketsOf(ep) : ep \in entityPaths}
    IN  [b \in DOMAIN index \cup added |->
           (IF b \in DOMAIN index THEN index[b] ELSE {})
             \cup {ep.entityId : ep \in {e \in entityPaths : b \in BucketsOf(e)}}]

EntityPathValues(byId) == {byId[id] : id \in DOMAIN byId}

\* preprocessEntityPaths(): timelineIndex.clear(), then a full rebuild.
preprocessEntityPaths(s) ==
    Log([s EXCEPT !.timelineIndex = updateTimelineIndex(EmptyMap, EntityPathValues(s.entityPathsById))],
        "rebuildIndex", EmptyPath, 0)

\* Variant: only the loaded-batch map is cleared.
ClearBatchesOnly(s) ==
    Log([s EXCEPT !.loadedEntityPathBatches = EmptyMap], "clearEntities", EmptyPath, 0)

clearEntityPathData(s) ==
    Log([s EXCEPT !.loadedEntityPathBatches = EmptyMap,
                  !.entityPathsById = EmptyMap,
                  !.timelineIndex = EmptyMap],
        "clearEntities", EmptyPath, 0)

\* loadEntityPathBatch(fileInfo) up to its await.  A file that is already in
\* loadedEntityPathBatches is returned at once, without a suspended frame.
BatchAlreadyLoaded(s, filePath) == MapHas(s.loadedEntityPathBatches, filePath)

LoadEntityPathBatchStart(s, fileInfo, owner) ==
    IF BatchAlreadyLoaded(s, fileInfo.filePath) THEN s
    ELSE FetchStart(s, "batch", fileInfo.filePath, owner)

\* loadEntityPathBatch after its await.  MergeOutcome is how the call ends:
\* "undefined" (no batch data), "rejected" (the for-of throws after the batch
\* was stored: batchData.entities is not iterable, or an entity has no path)
\* or "value".
MergeOutcome(s, f) ==
    IF f.val = None THEN "undefined"
    ELSE IF "entities" \notin DOMAIN ContentOf(s, f.val[1]) THEN "rejected"
    ELSE IF \E i \in 1..Len(ContentOf(s, f.val[1]).entities) :
               ~HasPath(ContentOf(s, f.val[1]).entities[i]) THEN "rejected"
    ELSE "value"

\* A throw inside the loop leaves the entities set before it in entityPathsById
\* and skips updateTimelineIndex.
\* Variant: the entities of the batch replace the entity map.
BatchReplacesEntities(s, f) ==
    IF MergeOutcome(s, f) # "value" THEN s
    ELSE LET byId == MergeEntities(EmptyMap, ContentOf(s, f.val[1]).entities, 1)
         IN  Log(Log([s EXCEPT !.loadedEntityPathBatches = MapSet(@, f.path, f.val[1]),
                               !.entityPathsById = byId,
                               !.timelineIndex = updateTimelineIndex(@, EntityPathValues(byId))],
                     "batchStored", f.path, 0),
                 "batchMerged", f.path, 0)

\* Variant: the batch is merged without being stored in loadedEntityPathBatches.
BatchMergedNotStored(s, f) ==
    IF MergeOutcome(s, f) # "value" THEN s
    ELSE LET byId == MergeEntities(s.entityPathsById, ContentOf(s, f.val[1]).entities, 1)
         IN  Log([s EXCEPT !.entityPathsById = byId,
                           !.timelineIndex = updateTimelineIndex(@, EntityPathValues(byId))],
                 "batchMerged", f.path, 0)

LoadEntityPathBatchFinish(s, f) ==
    IF MergeOutcome(s, f) = "undefined" THEN s
    ELSE LET stored == Log([s EXCEPT !.loadedEntityPathBatches = MapSet(@, f.path, f.val[1])],
                           "batchStored", f.path, 0)
         IN  IF "entities" \notin DOMAIN ContentOf(s, f.val[1]) THEN stored
             ELSE IF MergeOutcome(s, f) = "rejected"
             THEN [stored EXCEPT !.entityPathsById =
                      MergeEntities(@, ContentOf(s, f.val[1]).entities, 1)]
             ELSE LET byId == MergeEntities(stored.entityPathsById,
                                            ContentOf(s, f.val[1]).entities, 1)
                  IN  Log([stored EXCEPT
                             !.entityPathsById = byId,
                             !.timelineIndex =
                                updateTimelineIndex(@, EntityPathValues(byId))],
                          "batchMerged", f.path, 0)

\* getLoadedEntityIds(): the keys of entityPathsById.
getLoadedEntityIds(s) == DOMAIN s.entityPathsById

\* getEntitiesByType(entityType): entity id -> EntityPath.
getEntitiesByType(s, entityType) ==
    LET found == {id \in DOMAIN s.entityPathsById : s.entityPathsById[id].type = entityType}
    IN  [id \in found |-> s.entityPathsById[id]]

\* Variant: an index without buckets resets the manager before the rebuild.
ResetBeforeRebuild(s) ==
    IF MapSize(s.timelineIndex) = 0 THEN preprocessEntityPaths(clearEntityPathData(s)) ELSE s

\* getEntityIdsAtTime, first statement: an index without buckets is rebuilt.
EnsureTimelineIndex(s) ==
    IF MapSize(s.timelineIndex) = 0 THEN preprocessEntityPaths(s) ELSE s

\* timelineIndex.get(key) || new Set()
PotentialEntityIds(s, time) ==
    IF MapHas(s.timelineIndex, BucketOf(time)) THEN s.timelineIndex[BucketOf(time)] ELSE {}

\* The candidates that are still in entityPathsById.
Candidates(s, time) == {id \in PotentialEntityIds(s, time) : MapHas(s.entityPathsById, id)}

\* firstPoint.clock <= time && lastPoint.clock >= time
ActiveAt(entityPath, time) ==
    /\ entityPath.path[1].clock <= time
    /\ entityPath.path[Len(entityPath.path)].clock >= time

\* getEntityIdsAtTime(time) on a state whose index is there.  path[0] of an
\* empty path is undefined and reading its clock throws a TypeError.
getEntityIdsAtTime(s, time) ==
    IF \E id \in Candidates(s, time) : Len(s.entityPathsById[id].path) = 0
    THEN [threw |-> TRUE, ids |-> {}]
    ELSE [threw |-> FALSE,
          ids |-> {id \in Candidates(s, time) : ActiveAt(s.entityPathsById[id], time)}]

\* getEntitiesInTimeRange: the ids in the buckets startBucket..endBucket.  The
\* index is read as it is; it is not rebuilt when it has no bucket.
PotentialEntityIdsInRange(s, startTime, endTime) ==
    UNION {s.timelineIndex[b] :
             b \in (BucketOf(startTime)..BucketOf(endTime)) \cap DOMAIN s.timelineIndex}

\* firstPoint.clock <= endTime && lastPoint.clock >= startTime
Overlaps(entityPath, startTime, endTime) ==
    /\ entityPath.path[1].clock <= endTime
    /\ entityPath.path[Len(entityPath.path)].clock >= startTime

\* getEntitiesInTimeRange(startTime, endTime): entity id -> EntityPath.
getEntitiesInTimeRange(s, startTime, endTime) ==
    LET found == {id \in PotentialEntityIdsInRange(s, startTime, endTime) :
                    /\ MapHas(s.entityPathsById, id)
                    /\ Len(s.entityPathsById[id].path) # 0
                    /\ Overlaps(s.entityPathsById[id], startTime, endTime)}
    IN  [id \in found |-> s.entityPathsById[id]]

\* The getEntitiesInTimeRange of the earlier AnimationData class: every loaded
\* entity is tested, with no test for an empty path, whose path[0] is
\* undefined: reading its clock throws a TypeError.
legacyGetEntitiesInTimeRange(s, startTime, endTime) ==
    IF \E id \in DOMAIN s.entityPathsById : Len(s.entityPathsById[id].path) = 0
    THEN [threw |-> TRUE, ids |-> {}]
    ELSE [threw |-> FALSE,
          ids |-> {id \in DOMAIN s.entityPathsById :
                     Overlaps(s.entityPathsById[id], startTime, endTime)}]

\* getEntityStateAtTime.  The result is None (undefined) or Some of
\* [state, x, y]; x and y are numbers.
PointState(point) == [state |-> point.state, x |-> NumberOf(point.x), y |-> NumberOf(point.y)]

\* if (time < firstPoint.clock || time > lastPoint.clock) return undefined
OutsideLifetime(path, time) == time < path[1].clock \/ time > path[Len(path)].clock

\* for (const point of path) if (point.clock === time): the index of the
\* first such point, 0 when there is none.
\* Variant: the exact-time loop is left out.
NoPointAt(path, time) == 0

PointAt(path, time) ==
    IF \E i \in 1..Len(path) : path[i].clock = time
    THEN CHOOSE i \in 1..Len(path) :
           /\ path[i].clock = time
           /\ \A j \in 1..(i - 1) : path[j].clock # time
    ELSE 0

\* The loop over i = 0 .. length - 2 that breaks at the first i with
\* path[i].clock <= time && path[i + 1].clock >= time: that index (counted
\* from 1), 0 when the loop ends without one.
\* Variant: only the first two points are looked at.
BracketFirstOnly(path, time) ==
    IF Len(path) >= 2 /\ path[1].clock <= time /\ path[2].clock >= time THEN 1 ELSE 0

Bracket(path, time) ==
    LET fits == {i \in 1..(Len(path) - 1) : path[i].clock <= time /\ path[i + 1].clock >= time}
    IN  IF fits = {} THEN 0 ELSE CHOOSE i \in fits : \A j \in fits : i <= j

\* timeRatio = (time - before.clock) / (after.clock - before.clock)
TimeRatio(before, after, time) ==
    Divide(Minus(NumberOf(time), NumberOf(before)), Minus(NumberOf(after), NumberOf(before)))

\* before + timeRatio * (after - before)
Interpolated(before, after, timeRatio) ==
    Plus(NumberOf(before), Times(timeRatio, Minus(NumberOf(after), NumberOf(before))))

\* Variant: the state is taken from the later point.
StateOfAfter(beforePoint, afterPoint, time) ==
    LET timeRatio == TimeRatio(beforePoint.clock, afterPoint.clock, time)
    IN  [state |-> afterPoint.state,
         x |-> Interpolated(beforePoint.x, afterPoint.x, timeRatio),
         y |-> Interpolated(beforePoint.y, afterPoint.y, timeRatio)]

InterpolatedState(beforePoint, afterPoint, time) ==
    LET timeRatio == TimeRatio(beforePoint.clock, afterPoint.clock, time)
    IN  [state |-> beforePoint.state,
         x |-> Interpolated(beforePoint.x, afterPoint.x, timeRatio),
         y |-> Interpolated(beforePoint.y, afterPoint.y, timeRatio)]

getEntityStateAtTime(s, entityId, time) ==
    IF ~MapHas(s.entityPathsById, entityId) THEN None
    ELSE LET path == s.entityPathsById[entityId].path
         IN  IF Len(path) = 0 THEN None
             ELSE IF OutsideLifetime(path, time) THEN None
             ELSE IF PointAt(path, time) # 0 THEN Some(PointState(path[PointAt(path, time)]))
             ELSE IF Bracket(path, time) = 0 THEN None
             ELSE Some(InterpolatedState(path[Bracket(path, time)],
                                         path[Bracket(path, time) + 1], time))

RECURSIVE StartBatches(_, _, _, _)
StartBatches(s, fileInfos, i, owner) ==
    IF i > Len(fileInfos) THEN s
    ELSE StartBatches(LoadEntityPathBatchStart(s, fileInfos[i], owner), fileInfos, i + 1, owner)

(***************************************************************************)
(* StatisticsManager.                                                      *)
(***************************************************************************)
\* A property read: undefined prints as "undefined" in a template string.
FieldText(doc, name) == IF name \in DOMAIN doc THEN doc[name] ELSE "undefined"

\* `${type}:${componentId}:${metricName}`
getStatisticKey(type, componentId, metricName) == <<type, componentId, metricName>>

StatisticKeyOf(doc) ==
    getStatisticKey(FieldText(doc, "type"), FieldText(doc, "componentId"),
                    FieldText(doc, "metricName"))

clearStatisticsData(s) ==
    Log([s EXCEPT !.statisticsData = EmptyMap, !.loadedStatisticsFiles = EmptyMap],
        "clearStatistics", EmptyPath, 0)

StatAlreadyLoaded(s, filePath) == MapHas(s.loadedStatisticsFiles, filePath)

LoadStatisticsFileStart(s, fileInfo, owner) ==
    IF StatAlreadyLoaded(s, fileInfo.filePath) THEN s
    ELSE FetchStart(s, "stat", fileInfo.filePath, owner)

\* Variant: a file that failed to load drops the statistics loaded so far.
StatFailureDropsLoaded(s, f) ==
    IF f.val = None THEN clearStatisticsData(s)
    ELSE Log([s EXCEPT !.loadedStatisticsFiles = MapSet(@, f.path, f.val[1]),
                       !.statisticsData =
                          MapSet(@, StatisticKeyOf(ContentOf(s, f.val[1])), f.val[1])],
             "statStored", f.path, 0)

LoadStatisticsFileFinish(s, f) ==
    IF f.val = None THEN s
    ELSE Log([s EXCEPT !.loadedStatisticsFiles = MapSet(@, f.path, f.val[1]),
                       !.statisticsData =
                          MapSet(@, StatisticKeyOf(ContentOf(s, f.val[1])), f.val[1])],
             "statStored", f.path, 0)

\* getAvailableStatistics(): the keys of statisticsData.
getAvailableStatistics(s) == DOMAIN s.statisticsData

\* getStatistic(type, componentId, metricName): None or Some(statistics object).
getStatistic(s, type, componentId, metricName) ==
    IF MapHas(s.statisticsData, getStatisticKey(type, componentId, metricName))
    THEN Some(s.statisticsData[getStatisticKey(type, componentId, metricName)])
    ELSE None

\* for (const point of timeSeries) if (point.time === time): the index of the
\* first such point, 0 when there is none.
SeriesPointAt(timeSeries, time) ==
    IF \E i \in 1..Len(timeSeries) : timeSeries[i].time = time
    THEN CHOOSE i \in 1..Len(timeSeries) :
           /\ timeSeries[i].time = time
           /\ \A j \in 1..(i - 1) : timeSeries[j].time # time
    ELSE 0

\* The first i with timeSeries[i].time <= time && timeSeries[i + 1].time >= time
\* (counted from 1), 0 when there is none.
SeriesBracket(timeSeries, time) ==
    LET fits == {i \in 1..(Len(timeSeries) - 1) :
                   timeSeries[i].time <= time /\ timeSeries[i + 1].time >= time}
    IN  IF fits = {} THEN 0 ELSE CHOOSE i \in fits : \A j \in fits : i <= j

\* Math.abs(time - point.time)
Distance(time, point) == MathAbs(Minus(NumberOf(time), NumberOf(point.time)))

\* The loop over i = 1 .. length - 1 that keeps the closest point so far and
\* replaces it only by a strictly closer one: the index of the point it ends
\* with (counted from 1).
\* Variant: a point as close as the closest so far replaces it.
RECURSIVE ClosestLastWins(_, _, _, _)
ClosestLastWins(timeSeries, time, i, closest) ==
    IF i > Len(timeSeries) THEN closest
    ELSE IF LessEq(Distance(time, timeSeries[i]), Distance(time, timeSeries[closest]))
    THEN ClosestLastWins(timeSeries, time, i + 1, i)
    ELSE ClosestLastWins(timeSeries, time, i + 1, closest)

RECURSIVE Closest(_, _, _, _)
Closest(timeSeries, time, i, closest) ==
    IF i > Len(timeSeries) THEN closest
    ELSE IF Less(Distance(time, timeSeries[i]), Distance(time, timeSeries[closest]))
    THEN Closest(timeSeries, time, i + 1, i)
    ELSE Closest(timeSeries, time, i + 1, closest)

\* if (time < timeSeries[0].time) ...; if (time > timeSeries[last].time) ...:
\* None when the time is within the series, else Some(index of the end point).
Clamped(timeSeries, time) ==
    IF time < timeSeries[1].time THEN Some(1)
    ELSE IF time > timeSeries[Len(timeSeries)].time THEN Some(Len(timeSeries))
    ELSE None

\* beforePoint.value + timeRatio * (afterPoint.value - beforePoint.value)
\* Variant: the value of the earlier point, not interpolated.
ValueOfBefore(beforePoint, afterPoint, time) == NumberOf(beforePoint.value)

InterpolatedValue(beforePoint, afterPoint, time) ==
    Interpolated(beforePoint.value, afterPoint.value,
                 TimeRatio(beforePoint.time, afterPoint.time, time))

\* getStatisticValueAtTime on the series of a statistic that was found.
ValueAtTime(timeSeries, time, interpolate) ==
    IF Len(timeSeries) = 0 THEN None
    ELSE IF Clamped(timeSeries, time) # None
    THEN Some(NumberOf(timeSeries[Clamped(timeSeries, time)[1]].value))
    ELSE IF SeriesPointAt(timeSeries, time) # 0
    THEN Some(NumberOf(timeSeries[SeriesPointAt(timeSeries, time)].value))
    ELSE IF interpolate /\ SeriesBracket(timeSeries, time) # 0
    THEN Some(InterpolatedValue(timeSeries[SeriesBracket(timeSeries, time)],
                                timeSeries[SeriesBracket(timeSeries, time) + 1], time))
    ELSE Some(NumberOf(timeSeries[Closest(timeSeries, time, 2, 1)].value))

\* getStatisticValueAtTime(type, componentId, metricName, time, interpolate):
\* None (undefined) or Some(number).
getStatisticValueAtTime(s, type, componentId, metricName, time, interpolate) ==
    IF getStatistic(s, type, componentId, metricName) = None THEN None
    ELSE ValueAtTime(ContentOf(s, getStatistic(s, type, componentId, metricName)[1]).timeSeries,
                     time, interpolate)

\* point.time >= startTime && point.time <= endTime
\* Variant: the end of the window is excluded.
InRangeBeforeEnd(point, startTime, endTime) == point.time >= startTime /\ point.time < endTime

InRange(point, startTime, endTime) == point.time >= startTime /\ point.time <= endTime

\* getStatisticTimeSeriesForRange: [] when the statistic is not found, else
\* timeSeries.filter(...), a new array of the points that pass.
getStatisticTimeSeriesForRange(s, type, componentId, metricName, startTime, endTime) ==
    IF getStatistic(s, type, componentId, metricName) = None THEN <<>>
    ELSE SelectSeq(ContentOf(s, getStatistic(s, type, componentId, metricName)[1]).timeSeries,
                   LAMBDA point : InRange(point, startTime, endTime))

\* Math.min(...values) and Math.max(...values) of a non-empty array.
MathMin(values) == CHOOSE v \in SeqToSet(values) : \A w \in SeqToSet(values) : v <= w
MathMax(values) == CHOOSE v \in SeqToSet(values) : \A w \in SeqToSet(values) : v >= w

\* values.reduce((acc, val) => acc + val, 0) over the first i values.
RECURSIVE Reduce(_, _)
Reduce(values, i) ==
    IF i = 0 THEN NumberOf(0) ELSE Plus(Reduce(values, i - 1), NumberOf(values[i]))

\* getStatisticSummary: undefined when the statistic is not found or its
\* series is empty, else { min, max, mean } of the values of the points.
getStatisticSummary(s, type, componentId, metricName) ==
    IF getStatistic(s, type, componentId, metricName) = None THEN None
    ELSE LET timeSeries == ContentOf(s, getStatistic(s, type, componentId, metricName)[1]).timeSeries
             values == [i \in 1..Len(timeSeries) |-> timeSeries[i].value]
         IN  IF Len(timeSeries) = 0 THEN None
             ELSE Some([min |-> NumberOf(MathMin(values)),
                        max |-> NumberOf(MathMax(values)),
                        mean |-> Divide(Reduce(values, Len(values)), NumberOf(Len(values)))])

RECURSIVE StartStatistics(_, _, _, _)
StartStatistics(s, fileInfos, i, owner) ==
    IF i > Len(fileInfos) THEN s
    ELSE StartStatistics(LoadStatisticsFileStart(s, fileInfos[i], owner), fileInfos, i + 1, owner)

(***************************************************************************)
(* Suspended calls.                                                        *)
(***************************************************************************)
Call(op, pc, arg, arg2, idx) == [op |-> op, pc |-> pc, arg |-> arg, arg2 |-> arg2, idx |-> idx]
Idle == Call("none", "", 0, 0, 0)

Slots == 1..MaxCalls
FreeSlots(s) == {c \in Slots : s.calls[c].op = "none"}
NewSlot(s) == CHOOSE c \in FreeSlots(s) : \A d \in FreeSlots(s) : c <= d
OwnedFrames(s, c) == {f \in s.frames : f.owner = c}

\* The public method a suspended call runs.
CallName(c) ==
    CASE c.op = "activate" -> "setActiveReplication"
      [] c.op = "range" -> "loadEntityPathsForTimeRange"
      [] c.op = "discover" -> "discoverReplications"

\* Variant: the rejection is dropped and the call keeps waiting.
RejectionDropped(s, c) == [s EXCEPT !.calls[c].pc = "rejected"]

\* A rejected promise ends the call that awaits it (Promise.all rejects on the
\* first rejection); the loaders it started keep running, owned by nobody.
RejectCall(s, c) ==
    LET orphans == {[f EXCEPT !.owner = 0] : f \in OwnedFrames(s, c)}
        others == s.frames \ OwnedFrames(s, c)
    IN  [s EXCEPT !.calls[c] = Idle,
                  !.frames = others \cup orphans,
                  !.ok = @ /\ orphans \cap others = {}]

(***************************************************************************)
(* Inputs of the calls the application makes.                              *)
(***************************************************************************)
ReplicationIds == {1, 2, 3}
FetchInputs == {ManifestPath("rep_001"), BatchPath("rep_001", "batch_001_rep001")}
BatchInputs ==
    { [filePath |-> BatchPath("rep_002", "batch_001_rep001"),
       entryTimeStart |-> 0, entryTimeEnd |-> 30] }
\* The second batch file the manifest of replication 1 lists.
ListedBatchInputs ==
    { [filePath |-> BatchPath("rep_001", "batch_002_rep001"),
       entryTimeStart |-> 20, entryTimeEnd |-> 40] }
MixedBatchInputs ==
    { [filePath |-> BatchPath("rep_002", "batch_mixed"),
       entryTimeStart |-> 0, entryTimeEnd |-> 10] }
StatInputs ==
    { StatInfo("activity_metric", "act1", "queueLength", StatPath("rep_002", "queue")) }
RangeInputs == {<<0, 5>>, <<0, 0 - 1>>}
\* A range that reaches past the entry time of the second batch of replication 1.
WideRangeInputs == {<<0, 25>>}
QueryTimes == {5, 15}
\* The ids asked for: those of the documents and one that no document has.
\* The times: clocks of path points, times between them, and one time before
\* and one after every path.
StatKeyInputs ==
    { <<"activity_metric", "act1", "queueLength">>,
      <<"resource_metric", "res1", "utilization">> }
\* Times before, at, between and after the points of the series.
ValueTimeInputs == {0 - 1, 0, 1, 5, 10, 36, 68, 70, 80}
\* Windows that hold all, some and none of the points of a series, with a
\* point at the start and at the end of a window, and one with start > end.
WindowInputs == {<<0, 10>>, <<2, 8>>, <<8, 2>>, <<1, 69>>, <<70, 70>>}
UnlistedStatInputs ==
    { StatInfo("resource_metric", "res1", "utilization", StatPath("rep_002", "util")) }
StateInputs ==
    {"E1", "E2", "E3", "E5", "E9"} \X {0 - 1, 0, 5, 8, 10, 12, 15, 18, 25, 30, 32, 41}
TimeRangeInputs == {<<5, 5>>, <<0, 9>>, <<12, 35>>, <<15, 15>>}
\* A range whose start lies in a later bucket than its end.
ReversedRangeInputs == {<<12, 8>>}
\* A type that entities of the documents have and one that none has.
TypeInputs == {"Cart", "Truck"}
ClearInputs == {None, Some(EmptyPath), Some(BatchPath("rep_001", "batch_001_rep001"))}

(***************************************************************************)
(* Init.                                                                   *)
(***************************************************************************)
Init ==
    /\ jsonCache = EmptyMap
    /\ availableReplications = EmptyMap
    /\ activeReplicationId = None
    /\ modelLayout = None
    /\ sharedVisualConfig = None
    /\ patched = {}
    /\ loadedEntityPathBatches = EmptyMap
    /\ entityPathsById = EmptyMap
    /\ timelineIndex = EmptyMap
    /\ statisticsData = EmptyMap
    /\ loadedStatisticsFiles = EmptyMap
    /\ readSeq = [p \in Files |-> 0]
    /\ readCount = [p \in Files |-> 0]
    /\ frames = {}
    /\ calls = [c \in Slots |-> Idle]
    /\ used = [ops |-> 0, faults |-> 0]
    /\ last = [op |-> "new", arg |-> EmptyPath, ret |-> "", val |-> None, log |-> <<>>]
    /\ returned = [p \in Files |-> None]

(***************************************************************************)
(* Steps of the Content Cache.                                             *)
(***************************************************************************)
RetOf(val) == IF val = None THEN "undefined" ELSE "value"

\* The read of frame f is served: a failure is logged as "readFailed".
ReadServed(s, f, outcome) ==
    IF outcome = "json" THEN s ELSE Log(Fault(s), "readFailed", f.path, f.seq)

\* The application calls cacheManager.fetchAndParseJSON(path).
FetchAndParseJSON(path) ==
    IF CacheHit(App, path)
    THEN Commit(App, Last(App, "fetchAndParseJSON", path, "value", Some(jsonCache[path])))
    ELSE LET s == FetchStart(App, "fetch", path, 0)
         IN  Commit(s, Last(s, "fetchAndParseJSON", path, "pending", None))

\* A pending readFileAsText resolves and fetchAndParseJSON resumes.
ReadDone(f, outcome) ==
    /\ f.st = "reading"
    /\ LET val == FetchResult(f, outcome)
           rest == [ReadServed(Cur, f, outcome) EXCEPT !.frames = @ \ {f}]
           s == FetchFinish(rest, f, outcome)
           t == IF f.kind = "fetch" THEN s
                ELSE AddFrame(s, [f EXCEPT !.st = "fetched", !.val = val])
       IN  Commit(t, Last(t, "fetchAndParseJSON", f.path, RetOf(val), val))

\* The application calls clearCache(path?).
ClearCache(arg) ==
    LET s == ClearCacheOn(App, arg)
    IN  Commit(s, Last(s, "clearCache", arg, "undefined", None))

(***************************************************************************)
(* Steps of the loaders.                                                   *)
(***************************************************************************)
\* The application calls entityPathManager.loadEntityPathBatch(fileInfo).
LoadEntityPathBatch(fileInfo) ==
    IF BatchAlreadyLoaded(App, fileInfo.filePath)
    THEN Commit(App, Last(App, "loadEntityPathBatch", fileInfo.filePath, "value",
                          Some(loadedEntityPathBatches[fileInfo.filePath])))
    ELSE LET s == LoadEntityPathBatchStart(App, fileInfo, 0)
         IN  Commit(s, Last(s, "loadEntityPathBatch", fileInfo.filePath, "pending", None))

\* loadEntityPathBatch resumes with the result of its fetch.
BatchDone(f) ==
    /\ f.kind = "batch"
    /\ f.st = "fetched"
    /\ LET rest == [Cur EXCEPT !.frames = @ \ {f}]
           s == LoadEntityPathBatchFinish(rest, f)
           how == MergeOutcome(rest, f)
       IN  IF how = "rejected" /\ f.owner # 0
           THEN LET c == calls[f.owner]
                IN  Commit(RejectCall(s, f.owner), Last(s, CallName(c), c.arg, "rejected", None))
           ELSE Commit(s, Last(s, "loadEntityPathBatch", f.path, how, f.val))

\* The application calls statisticsManager.loadStatisticsFile(fileInfo).
LoadStatisticsFile(fileInfo) ==
    IF StatAlreadyLoaded(App, fileInfo.filePath)
    THEN Commit(App, Last(App, "loadStatisticsFile", fileInfo.filePath, "value",
                          Some(loadedStatisticsFiles[fileInfo.filePath])))
    ELSE LET s == LoadStatisticsFileStart(App, fileInfo, 0)
         IN  Commit(s, Last(s, "loadStatisticsFile", fileInfo.filePath, "pending", None))

\* loadStatisticsFile resumes with the result of its fetch.
StatDone(f) ==
    /\ f.kind = "stat"
    /\ f.st = "fetched"
    /\ LET rest == [Cur EXCEPT !.frames = @ \ {f}]
           s == LoadStatisticsFileFinish(rest, f)
       IN  Commit(s, Last(s, "loadStatisticsFile", f.path, RetOf(f.val), f.val))

\* The application calls entityPathManager.getEntityIdsAtTime(time).
GetEntityIdsAtTime(time) ==
    LET s == EnsureTimelineIndex(Cur)
        r == getEntityIdsAtTime(s, time)
    IN  Commit(s, Last(s, "getEntityIdsAtTime", time,
                       IF r.threw THEN "threw" ELSE "value",
                       IF r.threw THEN None ELSE Some(r.ids)))

\* The application calls getEntitiesInTimeRange(startTime, endTime).
GetEntitiesInTimeRange(startTime, endTime) ==
    Commit(Cur, Last(Cur, "getEntitiesInTimeRange", <<startTime, endTime>>, "value",
                     Some(getEntitiesInTimeRange(Cur, startTime, endTime))))

\* The application calls getLoadedEntityIds().
GetLoadedEntityIds ==
    Commit(Cur, Last(Cur, "getLoadedEntityIds", 0, "value", Some(getLoadedEntityIds(Cur))))

\* The application calls getEntitiesByType(entityType).
GetEntitiesByType(entityType) ==
    Commit(Cur, Last(Cur, "getEntitiesByType", entityType, "value",
                     Some(getEntitiesByType(Cur, entityType))))

\* The application calls getAvailableStatistics().
GetAvailableStatistics ==
    Commit(Cur, Last(Cur, "getAvailableStatistics", 0, "value",
                     Some(getAvailableStatistics(Cur))))

\* The application calls getEntityStateAtTime(entityId, time).
GetEntityStateAtTime(entityId, time) ==
    LET r == getEntityStateAtTime(Cur, entityId, time)
    IN  Commit(Cur, Last(Cur, "getEntityStateAtTime", <<entityId, time>>, RetOf(r), r))

\* The application calls getStatistic(type, componentId, metricName).
GetStatistic(type, componentId, metricName) ==
    LET r == getStatistic(Cur, type, componentId, metricName)
    IN  Commit(Cur, Last(Cur, "getStatistic", <<type, componentId, metricName>>, RetOf(r), r))

\* The application calls getStatisticValueAtTime(type, componentId, metricName,
\* time, interpolate).
GetStatisticValueAtTime(type, componentId, metricName, time, interpolate) ==
    LET r == getStatisticValueAtTime(Cur, type, componentId, metricName, time, interpolate)
    IN  Commit(Cur, Last(Cur, "getStatisticValueAtTime",
                         <<type, componentId, metricName, time, interpolate>>, RetOf(r), r))

\* The application calls getStatisticTimeSeriesForRange(type, componentId,
\* metricName, startTime, endTime).
GetStatisticTimeSeriesForRange(type, componentId, metricName, startTime, endTime) ==
    Commit(Cur, Last(Cur, "getStatisticTimeSeriesForRange",
                     <<type, componentId, metricName, startTime, endTime>>, "value",
                     Some(getStatisticTimeSeriesForRange(Cur, type, componentId, metricName,
                                                         startTime, endTime))))

\* The application calls getStatisticSummary(type, componentId, metricName).
GetStatisticSummary(type, componentId, metricName) ==
    LET r == getStatisticSummary(Cur, type, componentId, metricName)
    IN  Commit(Cur, Last(Cur, "getStatisticSummary", <<type, componentId, metricName>>,
                         RetOf(r), r))

(***************************************************************************)
(* Steps of an activation: AnimationData.setActiveReplication.            *)
(***************************************************************************)
\* loadEntityPathDataForActiveReplication up to its await; the call in slot c
\* awaits it.  pc "paths": waiting for the batch loads; "pathsLoaded": the
\* promise has resolved and setActiveReplication is about to resume.
LoadEntityPathDataStart(s, c) ==
    LET active == getActiveReplication(s)
    IN  IF active = None THEN [s EXCEPT !.calls[c].pc = "pathsLoaded"]
        ELSE LET cleared == clearEntityPathData(s)
                 files == ContentOf(s, active[1]).entityPathDataFiles
             IN  IF Len(files) = 0 THEN [cleared EXCEPT !.calls[c].pc = "pathsLoaded"]
                 ELSE StartBatches([cleared EXCEPT !.calls[c].pc = "paths"], files, 1, c)

\* Variant: the loads are started before the catalog records the id.
LoadBeforeRecord(s, replicationId, c) ==
    setActiveReplicationId(
        LoadEntityPathDataStart(
            [s EXCEPT !.calls[c] = Call("activate", "", replicationId, 0, 0)], c),
        replicationId)

\* The statements of setActiveReplication up to its first await.
SetActiveReplicationSync(s, replicationId, c) ==
    LoadEntityPathDataStart(
        [setActiveReplicationId(s, replicationId)
           EXCEPT !.calls[c] = Call("activate", "", replicationId, 0, 0)], c)

\* The application calls animData.setActiveReplication(replicationId).
SetActiveReplication(replicationId) ==
    IF ~setActiveReplicationIdOk(App, replicationId)
    THEN Commit(App, Last(App, "setActiveReplication", replicationId, "false", None))
    ELSE /\ FreeSlots(App) # {}
         /\ LET s == SetActiveReplicationSync(App, replicationId, NewSlot(App))
            IN  Commit(s, Last(s, "setActiveReplication", replicationId, "pending", None))

\* Promise.all of the batch loads has resolved: preprocessEntityPaths, return true.
PathsLoaded(c) ==
    /\ calls[c].op = "activate"
    /\ calls[c].pc = "paths"
    /\ OwnedFrames(Cur, c) = {}
    /\ LET s == preprocessEntityPaths([Cur EXCEPT !.calls[c].pc = "pathsLoaded"])
       IN  Commit(s, Last(s, "loadEntityPathDataForActiveReplication", calls[c].arg,
                          "true", None))

\* loadStatisticsDataForActiveReplication up to its await.
LoadStatisticsDataStart(s, c) ==
    LET active == getActiveReplication(s)
        waiting == [s EXCEPT !.calls[c].pc = "stats"]
    IN  IF active = None THEN waiting
        ELSE LET cleared == clearStatisticsData(waiting)
                 files == ContentOf(s, active[1]).statisticsDataFiles
             IN  IF Len(files) = 0 THEN cleared
                 ELSE StartStatistics(cleared, files, 1, c)

\* setActiveReplication resumes after the entity paths and starts the statistics.
LoadStatistics(c) ==
    /\ calls[c].op = "activate"
    /\ calls[c].pc = "pathsLoaded"
    /\ LET s == LoadStatisticsDataStart(Cur, c)
       IN  Commit(s, Last(s, "setActiveReplication", calls[c].arg, "pending", None))

\* The statistics loads have all resolved: setActiveReplication returns true.
ActivationDone(c) ==
    /\ calls[c].op = "activate"
    /\ calls[c].pc = "stats"
    /\ OwnedFrames(Cur, c) = {}
    /\ LET s == [Cur EXCEPT !.calls[c] = Idle]
       IN  Commit(s, Last(s, "setActiveReplication", calls[c].arg, "true", None))

(***************************************************************************)
(* Steps of a range load: loadEntityPathsForTimeRange.                    *)
(***************************************************************************)
\* batch.entryTimeStart <= endTime && !loadedEntityPathBatches.has(batch.filePath)
BatchesToLoad(s, files, endTime) ==
    SelectSeq(files, LAMBDA batch : /\ batch.entryTimeStart <= endTime
                                    /\ ~MapHas(s.loadedEntityPathBatches, batch.filePath))

\* The application calls animData.loadEntityPathsForTimeRange(startTime, endTime).
LoadEntityPathsForTimeRange(startTime, endTime) ==
    LET active == getActiveReplication(App)
    IN  IF active = None
        THEN Commit(App, Last(App, "loadEntityPathsForTimeRange", <<startTime, endTime>>,
                              "undefined", None))
        ELSE /\ FreeSlots(App) # {}
             /\ LET c == NewSlot(App)
                    files == BatchesToLoad(App, ContentOf(App, active[1]).entityPathDataFiles,
                                           endTime)
                    s == StartBatches([App EXCEPT !.calls[c] =
                                          Call("range", "loading", startTime, endTime, 0)],
                                      files, 1, c)
                IN  Commit(s, Last(s, "loadEntityPathsForTimeRange", <<startTime, endTime>>,
                                   "pending", None))

\* Promise.all of the started batch loads has resolved.
RangeDone(c) ==
    /\ calls[c].op = "range"
    /\ OwnedFrames(Cur, c) = {}
    /\ LET s == [Cur EXCEPT !.calls[c] = Idle]
       IN  Commit(s, Last(s, "loadEntityPathsForTimeRange", <<calls[c].arg, calls[c].arg2>>,
                          "undefined", None))

(***************************************************************************)
(* Steps of discovery: ReplicationManager.discoverReplications.           *)
(***************************************************************************)
\* The application calls animData.initializeOrDiscoverReplications():
\* listDirectoryContents('replications') is pending.
DiscoverReplications ==
    /\ FreeSlots(App) # {}
    /\ LET s == [App EXCEPT !.calls[NewSlot(App)] = Call("discover", "list", 0, 0, 0)]
       IN  Commit(s, Last(s, "discoverReplications", EmptyPath, "pending", None))

\* reader.readJSONFile(path): reads the file itself, past the cache.  The call
\* remembers which read it waits for in arg2.
ReadJSONFileStart(s, c, pc, path) ==
    LET r == IssueRead(s, path)
    IN  [r EXCEPT !.calls[c].pc = pc, !.calls[c].arg2 = r.readSeq[path]]

\* readJSONFile throws when the file is unreadable or unparsable.
ReadJSONFileResult(path, seq, outcome) ==
    IF Truthy(outcome) /\ Parses(outcome) THEN Some(Ref(path, seq)) ELSE None

\* The Error readJSONFile threw reaches its caller, which catches it and warns.
ReadJSONFileThrew(s, path, seq, outcome) ==
    Log(Served(s, outcome), "readJSONFileThrew", path, seq)

\* The directory listing resolves; without one discovery returns, otherwise
\* the model layout is read.
DirectoryListed(c, listed) ==
    /\ calls[c].op = "discover"
    /\ calls[c].pc = "list"
    /\ IF ~listed
       THEN LET s == [Log(Fault(Cur), "listFailed", EmptyPath, 0) EXCEPT !.calls[c] = Idle]
            IN  Commit(s, Last(s, "discoverReplications", EmptyPath, "undefined", None))
       ELSE LET s == ReadJSONFileStart(Cur, c, "layout", ModelLayoutPath)
            IN  Commit(s, Last(s, "discoverReplications", EmptyPath, "pending", None))

\* try { this.modelLayout = await readJSONFile(...) } catch { warn }; then the
\* shared visual configuration is read.
LayoutRead(c, outcome) ==
    /\ calls[c].op = "discover"
    /\ calls[c].pc = "layout"
    /\ LET got == ReadJSONFileResult(ModelLayoutPath, calls[c].arg2, outcome)
           set == IF got = None
                  THEN ReadJSONFileThrew(Cur, ModelLayoutPath, calls[c].arg2, outcome)
                  ELSE Log([Cur EXCEPT !.modelLayout = got], "layoutSet", ModelLayoutPath, 0)
           s == ReadJSONFileStart(set, c, "visual", VisualConfigPath)
       IN  Commit(s, Last(s, "discoverReplications", EmptyPath, "pending", None))

\* The loop over the directory entries from entry i on: runs until the fetch
\* of a manifest suspends it, or to the end of the listing.
\* The match of every entry of the listing against /rep_0*(\d+)/i.
RepIdOfEntry == [i \in DOMAIN DirListing |-> RepIdMatch(DirListing[i].name)]

RECURSIVE DiscoverLoop(_, _, _)
DiscoverLoop(s, c, i) ==
    IF i > Len(DirListing) THEN [s EXCEPT !.calls[c] = Idle]
    ELSE IF ~DirListing[i].isDirectory \/ RepIdOfEntry[i] = None
         THEN DiscoverLoop(s, c, i + 1)
         ELSE FetchStart([s EXCEPT !.calls[c] =
                             Call("discover", "manifest", RepIdOfEntry[i][1], 0, i)],
                         "manifest", ManifestPath(DirListing[i].name), c)

DiscoverRet(s, c) == IF s.calls[c].op = "none" THEN "undefined" ELSE "pending"

VisualConfigRead(c, outcome) ==
    /\ calls[c].op = "discover"
    /\ calls[c].pc = "visual"
    /\ LET got == ReadJSONFileResult(VisualConfigPath, calls[c].arg2, outcome)
           set == IF got = None
                  THEN ReadJSONFileThrew(Cur, VisualConfigPath, calls[c].arg2, outcome)
                  ELSE Log([Cur EXCEPT !.sharedVisualConfig = got], "visualSet",
                           VisualConfigPath, 0)
           s == DiscoverLoop(set, c, 1)
       IN  Commit(s, Last(s, "discoverReplications", EmptyPath, DiscoverRet(s, c), None))

\* Variant: an id that is in the catalog keeps its manifest.
RegisterKeepsEarlier(s, repId, val) ==
    IF val = None \/ MapHas(s.availableReplications, repId) THEN s
    ELSE Log([s EXCEPT !.patched = @ \cup {val[1]},
                       !.availableReplications = MapSet(@, repId, val[1])],
             "registered", val[1].path, repId)

\* The manifest of directory entry idx is back: reassign its
\* entityPathDataFiles and register it under the replication id.
RegisterManifest(s, repId, val) ==
    IF val = None THEN s
    ELSE Log([s EXCEPT !.patched = @ \cup {val[1]},
                       !.availableReplications = MapSet(@, repId, val[1])],
             "registered", val[1].path, repId)

\* Variant: a manifest that did not load ends the discovery.
ManifestDoneEndsAtFailure(f) ==
    /\ f.kind = "manifest"
    /\ f.st = "fetched"
    /\ LET c == f.owner
           rest == [Cur EXCEPT !.frames = @ \ {f}]
           s == IF f.val = None THEN [rest EXCEPT !.calls[c] = Idle]
                ELSE DiscoverLoop(RegisterManifest(rest, calls[c].arg, f.val), c,
                                  calls[c].idx + 1)
       IN  Commit(s, Last(s, "discoverReplications", EmptyPath, DiscoverRet(s, c), None))

ManifestDone(f) ==
    /\ f.kind = "manifest"
    /\ f.st = "fetched"
    /\ LET c == f.owner
           rest == [Cur EXCEPT !.frames = @ \ {f}]
           s == DiscoverLoop(RegisterManifest(rest, calls[c].arg, f.val), c, calls[c].idx + 1)
       IN  Commit(s, Last(s, "discoverReplications", EmptyPath, DiscoverRet(s, c), None))

(***************************************************************************)
(* Next.                                                                   *)
(***************************************************************************)
\* No asynchronous call is in flight.
Quiet == frames = {} /\ \A c \in Slots : calls[c].op = "none"

\* The application awaits every call before it makes the next one.
Next ==
    \/ Quiet /\ \E path \in FetchInputs : FetchAndParseJSON(path)
    \/ \E f \in frames, outcome \in ReadOutcomes : ReadDone(f, outcome)
    \/ Quiet /\ \E arg \in ClearInputs : ClearCache(arg)
    \/ Quiet /\ \E fileInfo \in BatchInputs : LoadEntityPathBatch(fileInfo)
    \/ \E f \in frames : BatchDone(f)
    \/ Quiet /\ \E time \in QueryTimes : GetEntityIdsAtTime(time)
    \/ Quiet /\ \E fileInfo \in StatInputs : LoadStatisticsFile(fileInfo)
    \/ \E f \in frames : StatDone(f)
    \/ Quiet /\ \E id \in ReplicationIds : SetActiveReplication(id)
    \/ \E c \in Slots : PathsLoaded(c)
    \/ \E c \in Slots : LoadStatistics(c)
    \/ \E c \in Slots : ActivationDone(c)
    \/ Quiet /\ \E range \in RangeInputs : LoadEntityPathsForTimeRange(range[1], range[2])
    \/ \E c \in Slots : RangeDone(c)
    \/ Quiet /\ DiscoverReplications
    \/ \E c \in Slots, listed \in BOOLEAN : DirectoryListed(c, listed)
    \/ \E c \in Slots, outcome \in ReadOutcomes : LayoutRead(c, outcome)
    \/ \E c \in Slots, outcome \in ReadOutcomes : VisualConfigRead(c, outcome)
    \/ \E f \in frames : ManifestDone(f)

Spec == Init /\ [][Next]_vars

\* The steps that resume a suspended call: a read or a listing returns, or the
\* event loop runs the continuation of a promise that has settled.
Resume ==
    \/ \E f \in frames, outcome \in ReadOutcomes : ReadDone(f, outcome)
    \/ \E f \in frames : BatchDone(f)
    \/ \E f \in frames : StatDone(f)
    \/ \E c \in Slots : PathsLoaded(c)
    \/ \E c \in Slots : LoadStatistics(c)
    \/ \E c \in Slots : ActivationDone(c)
    \/ \E c \in Slots : RangeDone(c)
    \/ \E c \in Slots, listed \in BOOLEAN : DirectoryListed(c, listed)
    \/ \E c \in Slots, outcome \in ReadOutcomes : LayoutRead(c, outcome)
    \/ \E c \in Slots, outcome \in ReadOutcomes : VisualConfigRead(c, outcome)
    \/ \E f \in frames : ManifestDone(f)

\* Every issued read and listing eventually returns, and a continuation that
\* can run is eventually run; the application may stop calling at any time.
SpecLive == Init /\ [][Next]_vars /\ WF_vars(Resume)

(***************************************************************************)
(* The application makes calls without awaiting the earlier ones: a call   *)
(* may start at every suspension point.  Behaviours start after one        *)
(* discovery in which every read succeeded.                                *)
(***************************************************************************)
Manifests == {ManifestPath("REP_1"), ManifestPath("rep_001"), ManifestPath("rep_002")}
DiscoveryReads == Manifests \cup {ModelLayoutPath, VisualConfigPath}

\* The state when one discovery has returned; ops is the number of calls the
\* application is counted to have made.
Discovered(ops) ==
    /\ jsonCache = [p \in Manifests |-> Ref(p, 1)]
    /\ availableReplications =
          [id \in {1, 2} |-> Ref(ManifestPath(IF id = 1 THEN "rep_001" ELSE "rep_002"), 1)]
    /\ activeReplicationId = None
    /\ modelLayout = Some(Ref(ModelLayoutPath, 1))
    /\ sharedVisualConfig = Some(Ref(VisualConfigPath, 1))
    /\ patched = {Ref(p, 1) : p \in Manifests}
    /\ loadedEntityPathBatches = EmptyMap
    /\ entityPathsById = EmptyMap
    /\ timelineIndex = EmptyMap
    /\ statisticsData = EmptyMap
    /\ loadedStatisticsFiles = EmptyMap
    /\ readSeq = [p \in Files |-> IF p \in DiscoveryReads THEN 1 ELSE 0]
    /\ readCount = [p \in Files |-> IF p \in DiscoveryReads THEN 1 ELSE 0]
    /\ frames = {}
    /\ calls = [c \in Slots |-> Idle]
    /\ used = [ops |-> ops, faults |-> 0]
    /\ last = [op |-> "discoverReplications", arg |-> EmptyPath, ret |-> "undefined",
               val |-> None, log |-> <<Ev("registered", ManifestPath("rep_002"), 2)>>]
    /\ returned = [p \in Files |-> IF p \in Manifests THEN Some(Ref(p, 1)) ELSE None]

InitDiscovered == Discovered(1)

NextConc ==
    \/ \E path \in FetchInputs : FetchAndParseJSON(path)
    \/ \E f \in frames, outcome \in ReadOutcomes : ReadDone(f, outcome)
    \/ \E arg \in ClearInputs : ClearCache(arg)
    \/ \E fileInfo \in BatchInputs \cup ListedBatchInputs : LoadEntityPathBatch(fileInfo)
    \/ \E f \in frames : BatchDone(f)
    \/ \E time \in QueryTimes : GetEntityIdsAtTime(time)
    \/ \E fileInfo \in StatInputs : LoadStatisticsFile(fileInfo)
    \/ \E f \in frames : StatDone(f)
    \/ \E id \in ReplicationIds : SetActiveReplication(id)
    \/ \E c \in Slots : PathsLoaded(c)
    \/ \E c \in Slots : LoadStatistics(c)
    \/ \E c \in Slots : ActivationDone(c)
    \/ \E range \in RangeInputs : LoadEntityPathsForTimeRange(range[1], range[2])
    \/ \E c \in Slots : RangeDone(c)
    \/ DiscoverReplications
    \/ \E c \in Slots, listed \in BOOLEAN : DirectoryListed(c, listed)
    \/ \E c \in Slots, outcome \in ReadOutcomes : LayoutRead(c, outcome)
    \/ \E c \in Slots, outcome \in ReadOutcomes : VisualConfigRead(c, outcome)
    \/ \E f \in frames : ManifestDone(f)

SpecConc == InitDiscovered /\ [][NextConc]_vars

(***************************************************************************)
(* The queries, asked between the calls that load: after a discovery the   *)
(* application activates replications and loads batch files one call at a  *)
(* time, and between two calls it asks for entities and statistics.        *)
(***************************************************************************)
\* The queries that assign nothing.  The state after one of them is the state
\* before it, so a query asked right after another is a query asked in the
\* state of the first: every query is asked once in every state.
PureQueries ==
    {"getEntitiesInTimeRange", "getEntityStateAtTime", "getStatistic", "getStatisticValueAtTime",
     "getStatisticTimeSeriesForRange", "getStatisticSummary", "getLoadedEntityIds",
     "getEntitiesByType", "getAvailableStatistics"}
Asking == Quiet /\ last.op \notin PureQueries

NextQuery ==
    \/ Quiet /\ \E id \in ReplicationIds : SetActiveReplication(id)
    \/ \E f \in frames, outcome \in ReadOutcomes : ReadDone(f, outcome)
    \/ \E f \in frames : BatchDone(f)
    \/ \E f \in frames : StatDone(f)
    \/ \E c \in Slots : PathsLoaded(c)
    \/ \E c \in Slots : LoadStatistics(c)
    \/ \E c \in Slots : ActivationDone(c)
    \/ Quiet /\ \E fileInfo \in BatchInputs \cup MixedBatchInputs : LoadEntityPathBatch(fileInfo)
    \/ Quiet /\ \E time \in QueryTimes : GetEntityIdsAtTime(time)
    \/ Asking /\ \E range \in TimeRangeInputs \cup ReversedRangeInputs :
                    GetEntitiesInTimeRange(range[1], range[2])
    \/ Asking /\ \E q \in StateInputs : GetEntityStateAtTime(q[1], q[2])
    \/ Quiet /\ \E fileInfo \in StatInputs \cup UnlistedStatInputs : LoadStatisticsFile(fileInfo)
    \/ Asking /\ \E k \in StatKeyInputs : GetStatistic(k[1], k[2], k[3])
    \/ Asking /\ \E k \in StatKeyInputs, time \in ValueTimeInputs, interpolate \in BOOLEAN :
                    GetStatisticValueAtTime(k[1], k[2], k[3], time, interpolate)
    \/ Asking /\ \E k \in StatKeyInputs, w \in WindowInputs :
                    GetStatisticTimeSeriesForRange(k[1], k[2], k[3], w[1], w[2])
    \/ Asking /\ \E k \in StatKeyInputs : GetStatisticSummary(k[1], k[2], k[3])
    \/ Asking /\ GetLoadedEntityIds
    \/ Asking /\ \E entityType \in TypeInputs : GetEntitiesByType(entityType)
    \/ Asking /\ GetAvailableStatistics

SpecQuery == InitDiscovered /\ [][NextQuery]_vars

(***************************************************************************)
(* Playback: the discovery has returned before the behaviour starts; the   *)
(* application activates a replication and, as the clock advances, asks    *)
(* for the batches of the time range ahead, one call at a time.            *)
(***************************************************************************)
InitPlayback == Discovered(0)

NextPlayback ==
    \/ Quiet /\ \E id \in ReplicationIds : SetActiveReplication(id)
    \/ \E f \in frames, outcome \in ReadOutcomes : ReadDone(f, outcome)
    \/ \E f \in frames : BatchDone(f)
    \/ \E f \in frames : StatDone(f)
    \/ \E c \in Slots : PathsLoaded(c)
    \/ \E c \in Slots : LoadStatistics(c)
    \/ \E c \in Slots : ActivationDone(c)
    \/ Quiet /\ \E range \in RangeInputs \cup WideRangeInputs :
                   LoadEntityPathsForTimeRange(range[1], range[2])
    \/ \E c \in Slots : RangeDone(c)

SpecPlayback == InitPlayback /\ [][NextPlayback]_vars

(***************************************************************************)
(* Properties.                                                             *)
(***************************************************************************)
\* The step is a call made by the application (not a continuation).
IsCall == used'.ops = used.ops + 1

NoRead(log) == \A i \in DOMAIN log : log[i].e # "read"
FailedRead(log) == \E i \in DOMAIN log : log[i].e = "readFailed"

\* Paths that are only ever requested through the Content Cache.
CachedPaths == Files \ {ModelLayoutPath, VisualConfigPath}

\* C1: in sequential use, once a load of path p (fetchAndParseJSON,
\* loadEntityPathBatch or loadStatisticsFile) has returned a document and no
\* clearCache was called since, every later load of p issues no read and
\* returns the identical document; without failed reads such a p was read at
\* most once since the cache was last cleared of it.
C1_SequentialCacheIdempotence ==
    /\ [][(last'.op \in LoadOps /\ returned[last'.arg] # None)
            => /\ NoRead(last'.log)
               /\ readSeq' = readSeq
               /\ last'.ret \in {"value", "pending"}
               /\ (last'.ret = "value" => last'.val = returned[last'.arg])]_vars
    /\ [](\A p \in Files : (returned[p] # None /\ used.faults = 0) => readCount[p] <= 1)

\* A second fetchAndParseJSON of a path was answered from the cache: the
\* document of the first read, and no second read.
C1_Witness ==
    /\ last.op = "fetchAndParseJSON"
    /\ last.ret = "value"
    /\ last.log = <<>>
    /\ last.val = Some(Ref(last.arg, 1))
    /\ readSeq[last.arg] = 1

\* C2: between two clears of the cache at most one read is issued for each
\* path requested through the cache, in every interleaving (reads that failed
\* and were retried apart).
C2_AtMostOneReadPerPath ==
    used.faults = 0 => \A p \in CachedPaths : readCount[p] <= 1

\* An activation and a range load both wait for their own read of one batch file.
C2_Witness ==
    \E f, g \in frames :
        /\ f.path = g.path
        /\ f.st = "reading" /\ g.st = "reading"
        /\ f.kind = "batch" /\ g.kind = "batch"
        /\ f.owner # 0 /\ g.owner # 0
        /\ calls[f.owner].op = "activate"
        /\ calls[g.owner].op = "range"

\* C3: a fetchAndParseJSON whose read missed or did not parse returns
\* undefined, leaves the cache as it was and without an entry for the path;
\* and a fetchAndParseJSON of a path the cache does not hold issues a fresh read.
C3_FailedFetchNotCached ==
    [][/\ (last'.op = "fetchAndParseJSON" /\ FailedRead(last'.log))
            => /\ last'.ret = "undefined"
               /\ last'.val = None
               /\ jsonCache' = jsonCache
               /\ ~MapHas(jsonCache', last'.arg)
       /\ (last'.op = "fetchAndParseJSON" /\ IsCall /\ ~MapHas(jsonCache, last'.arg))
            => /\ last'.ret = "pending"
               /\ last'.log = <<Ev("read", last'.arg, readSeq[last'.arg] + 1)>>]_vars

\* After a failed fetch of a path, the next fetch of it has issued a second read.
C3_Witness ==
    /\ last.op = "fetchAndParseJSON"
    /\ last.ret = "pending"
    /\ used.faults = 1
    /\ readSeq[last.arg] = 2
    /\ ~MapHas(jsonCache, last.arg)

\* C4: clearCache(p) for any path string p removes exactly the entry of p and
\* leaves every other entry.
C4_ClearRemovesExactlyPath ==
    [][(last'.op = "clearCache" /\ last'.arg # None)
         => jsonCache' = MapDelete(jsonCache, last'.arg[1])]_vars

\* clearCache("") was called on a cache that held the manifests, and the cache is empty.
C4_Witness ==
    /\ last.op = "clearCache"
    /\ last.arg = Some(EmptyPath)
    /\ used = [ops |-> 2, faults |-> 0]
    /\ readSeq[ManifestPath("rep_001")] = 1
    /\ jsonCache = EmptyMap

\* C4, the rest of the claim: an entry leaves the cache only in a clearCache
\* step, clearCache() without argument empties the cache, getCacheSize() is
\* the number of entries, and clearCache changes nothing but the cache.
C4_OnlyClearEvicts ==
    [][/\ (\E p \in DOMAIN jsonCache : ~MapHas(jsonCache', p)) => last'.op = "clearCache"
       /\ (last'.op = "clearCache" /\ last'.arg = None) => jsonCache' = EmptyMap
       /\ getCacheSize' = Cardinality(DOMAIN jsonCache')
       /\ last'.op = "clearCache"
            => UNCHANGED <<availableReplications, activeReplicationId, modelLayout,
                           sharedVisualConfig, patched, loadedEntityPathBatches,
                           entityPathsById, timelineIndex, statisticsData,
                           loadedStatisticsFiles, readSeq, frames, calls>>]_vars

\* C5: setActiveReplication(id) with id not in the catalog returns false,
\* issues no read and leaves the active id, the loaded entities, the timeline
\* index, the loaded statistics, the cache and the suspended calls as they were.
C5_UnknownIdHasNoEffect ==
    [][(last'.op = "setActiveReplication" /\ IsCall
          /\ ~MapHas(availableReplications, last'.arg))
         => /\ last'.ret = "false"
            /\ last'.log = <<>>
            /\ UNCHANGED <<activeReplicationId, availableReplications,
                           loadedEntityPathBatches, entityPathsById, timelineIndex,
                           statisticsData, loadedStatisticsFiles, jsonCache,
                           readSeq, frames, calls>>]_vars

\* An unknown id was refused while a replication was active with data loaded.
C5_Witness ==
    /\ last.op = "setActiveReplication"
    /\ last.ret = "false"
    /\ ~MapHas(availableReplications, last.arg)
    /\ activeReplicationId = Some(1)
    /\ entityPathsById # EmptyMap
    /\ statisticsData # EmptyMap

\* Effects an activation may have only once the catalog has recorded the id.
IsLoaderPath(path) == Len(path) = 4 /\ path[3] \in {"entity_paths", "statistics"}
IsLoadOrClear(ev) ==
    \/ ev.e \in {"clearEntities", "clearStatistics"}
    \/ ev.e = "read" /\ IsLoaderPath(ev.path)

\* C6: in every step of setActiveReplication(id), every read of a batch or
\* statistics file and every clear of entity or statistics data comes after
\* the catalog recorded id as active (earlier in the same step, or in an
\* earlier step); and setActiveReplicationId changes nothing but the active id.
C6_ActivationIsTwoStep ==
    /\ [][last'.op \in {"setActiveReplication", "loadEntityPathDataForActiveReplication"}
            => \A i \in DOMAIN last'.log :
                 IsLoadOrClear(last'.log[i])
                   => IF IsCall
                      THEN \E j \in 1..(i - 1) :
                             last'.log[j] = Ev("setActive", EmptyPath, last'.arg)
                      ELSE activeReplicationId = Some(last'.arg)]_vars
    /\ [](\A id \in ReplicationIds :
            LET t == setActiveReplicationId(Cur, id)
            IN  /\ [t EXCEPT !.activeReplicationId = activeReplicationId, !.log = <<>>] = Cur
                /\ \A i \in DOMAIN t.log : t.log[i] = Ev("setActive", EmptyPath, id))

\* The first step of an activation: the id is recorded, then the entity data
\* is cleared and the batch read issued.
C6_Witness ==
    /\ last.op = "setActiveReplication"
    /\ last.ret = "pending"
    /\ Len(last.log) >= 3
    /\ last.log[1] = Ev("setActive", EmptyPath, last.arg)
    /\ last.log[2].e = "clearEntities"
    /\ last.log[3].e = "read"

\* The batch files of a replication directory and the entity ids in them.
BatchFilesOf(dirName) ==
    {p \in Files : Len(p) = 4 /\ p[2] = dirName /\ p[3] = "entity_paths"}

EntityIdsOfDoc(doc) ==
    IF "entities" \in DOMAIN doc THEN {doc.entities[i].id : i \in DOMAIN doc.entities} ELSE {}

EntityIdsOfDir(dirName) == UNION {EntityIdsOfDoc(DocOf(p)) : p \in BatchFilesOf(dirName)}

\* The directory of the manifest the catalog holds for a replication id.
DirOf(id) == availableReplications[id].path[2]

\* Entity ids that occur in A's batches and in none of B's.
IdsOnlyIn(A, B) == EntityIdsOfDir(DirOf(A)) \ EntityIdsOfDir(DirOf(B))

IndexedIds == UNION {timelineIndex[b] : b \in DOMAIN timelineIndex}

\* The activation of this id has just returned true.
Activated(id) ==
    last.op = "setActiveReplication" /\ last.ret = "true" /\ last.arg = id

\* C7: in sequential use, when setActiveReplication(B) has completed, neither
\* getLoadedEntityIds() nor the timeline index holds an entity id that occurs
\* only in the batches of another replication A.
C7_ActivationClearsPriorState ==
    \A B \in DOMAIN availableReplications :
        Activated(B)
          => \A A \in DOMAIN availableReplications \ {B} :
               (getLoadedEntityIds(Cur) \cup IndexedIds) \cap IdsOnlyIn(A, B) = {}

\* Replication 1 was activated to its end (both of its statistics files are
\* in the cache), then replication 2: E3 is loaded and E2 is not.
C7_Witness ==
    /\ Activated(2)
    /\ used.faults = 0
    /\ MapHas(jsonCache, StatPath("rep_001", "queue"))
    /\ MapHas(jsonCache, StatPath("rep_001", "util"))
    /\ "E3" \in getLoadedEntityIds(Cur)
    /\ "E2" \in IdsOnlyIn(1, 2)

\* The batch files the manifest document of a replication lists.
ListedBatchFiles(id) ==
    LET files == DocOf(availableReplications[id].path).entityPathDataFiles
    IN  {files[i].filePath : i \in DOMAIN files}

\* C8: after setActiveReplication(id) succeeded with every read served, the
\* loaded entity ids are those of every batch file the manifest document of
\* id lists, and no batch file outside the list was read.
C8_LoadsEveryListedBatch ==
    \A id \in DOMAIN availableReplications :
        (Activated(id) /\ used.faults = 0)
          => /\ getLoadedEntityIds(Cur)
                  = UNION {EntityIdsOfDoc(DocOf(p)) : p \in ListedBatchFiles(id)}
             /\ \A p \in BatchFilesOf(DirOf(id)) \ ListedBatchFiles(id) : readSeq[p] = 0

\* Replication 1 is active, its activation returned true, and the second
\* batch file its manifest lists was never read: E4 is not loaded.
C8_Witness ==
    /\ Activated(1)
    /\ used.faults = 0
    /\ BatchPath("rep_001", "batch_002_rep001") \in ListedBatchFiles(1)
    /\ readSeq[BatchPath("rep_001", "batch_002_rep001")] = 0
    /\ getLoadedEntityIds(Cur) = {"E1", "E2"}

\* The files the active replication's manifest object names, as the loaders see them.
ActiveBatchFiles(id) ==
    LET files == ContentOf(Cur, availableReplications[id]).entityPathDataFiles
    IN  {files[i].filePath : i \in DOMAIN files}

ActiveStatFiles(id) ==
    LET files == ContentOf(Cur, availableReplications[id]).statisticsDataFiles
    IN  {files[i].filePath : i \in DOMAIN files}

\* The batch file is recorded as loaded and its entities are in entityPathsById.
BatchMerged(p) ==
    /\ MapHas(loadedEntityPathBatches, p)
    /\ EntityIdsOfDoc(DocOf(p)) \subseteq getLoadedEntityIds(Cur)

\* The statistics file is recorded as loaded and the key loadStatisticsFile
\* computes for it is in statisticsData.
StatMerged(p) ==
    /\ MapHas(loadedStatisticsFiles, p)
    /\ MapHas(statisticsData, StatisticKeyOf(DocOf(p)))

\* C9: in sequential use, when setActiveReplication(id) returns true, every
\* batch and statistics file of the replication whose read and parse succeeded
\* is loaded and merged, the files that are not loaded are at most as many as
\* the reads that failed, the index is the index rebuilt from the loaded
\* entities; and a call is rejected only by a batch that was read and parsed.
C9_PartialFailuresIsolated ==
    /\ \A id \in DOMAIN availableReplications :
         Activated(id)
           => /\ \A p \in ActiveBatchFiles(id) : MapHas(jsonCache, p) => BatchMerged(p)
              /\ \A p \in ActiveStatFiles(id) : MapHas(jsonCache, p) => StatMerged(p)
              /\ Cardinality({p \in ActiveBatchFiles(id) : ~BatchMerged(p)}
                               \cup {p \in ActiveStatFiles(id) : ~StatMerged(p)})
                   <= used.faults
              /\ timelineIndex
                   = updateTimelineIndex(EmptyMap, EntityPathValues(entityPathsById))
    /\ last.ret = "rejected" => \E i \in DOMAIN last.log : last.log[i].e = "batchStored"

\* The read of one statistics file of replication 1 failed; the activation
\* returned true with the other statistics file and the batch loaded.
C9_Witness ==
    /\ Activated(1)
    /\ used.faults = 1
    /\ ~MapHas(loadedStatisticsFiles, StatPath("rep_001", "queue"))
    /\ StatMerged(StatPath("rep_001", "util"))
    /\ BatchMerged(BatchPath("rep_001", "batch_001_rep001"))

\* The loaded entity ids whose path is non-empty and spans the time.
ExactIdsAtTime(time) ==
    {id \in DOMAIN entityPathsById :
        LET path == entityPathsById[id].path
        IN  /\ Len(path) > 0
            /\ path[1].clock <= time
            /\ time <= path[Len(path)].clock}

\* C10: in every state reached by loads and activations, getEntityIdsAtTime(t)
\* returns exactly the loaded entity ids whose path is non-empty and has
\* path[0].clock <= t <= path[last].clock.
C10_IdsAtTimeExact ==
    last.op = "getEntityIdsAtTime"
      => /\ last.ret = "value"
         /\ last.val = Some(ExactIdsAtTime(last.arg))

\* getEntityIdsAtTime threw: a bucket of the index names an entity whose path
\* was replaced by an empty one.
C10_Witness ==
    /\ last.op = "getEntityIdsAtTime"
    /\ last.ret = "threw"
    /\ \E id \in PotentialEntityIds(Cur, last.arg) :
          MapHas(entityPathsById, id) /\ Len(entityPathsById[id].path) = 0

\* C10, restricted to the calls that return: what getEntityIdsAtTime returns
\* is exact.
C10_ExactWhenReturned ==
    (last.op = "getEntityIdsAtTime" /\ last.ret = "value")
      => last.val = Some(ExactIdsAtTime(last.arg))

(***************************************************************************)
(* Range queries.                                                          *)
(***************************************************************************)
\* The reference: every loaded entity is scanned and its interval tested.
ScanEntitiesInTimeRange(startTime, endTime) ==
    {id \in DOMAIN entityPathsById :
        LET path == entityPathsById[id].path
        IN  /\ Len(path) > 0
            /\ path[1].clock <= endTime
            /\ path[Len(path)].clock >= startTime}

\* C11: in every state reached by loads and activations, for start <= end, the
\* key set getEntitiesInTimeRange(start, end) returns equals the set found by
\* scanning all loaded entities with first.clock <= end && last.clock >= start.
C11_RangeQueryExact ==
    (last.op = "getEntitiesInTimeRange" /\ last.arg[1] <= last.arg[2])
      => DOMAIN last.val[1] = ScanEntitiesInTimeRange(last.arg[1], last.arg[2])

\* An entity of a batch whose merge threw half-way is loaded but in no bucket:
\* the range query misses it.
C11_Witness ==
    /\ last.op = "getEntitiesInTimeRange"
    /\ last.arg[1] <= last.arg[2]
    /\ \E id \in ScanEntitiesInTimeRange(last.arg[1], last.arg[2]) :
          /\ id \notin DOMAIN last.val[1]
          /\ id \notin IndexedIds

\* C11, the half that holds: the range query has no false positive, and what
\* it returns under an id is the loaded path of that id.
C11_NoFalsePositive ==
    last.op = "getEntitiesInTimeRange"
      => /\ DOMAIN last.val[1] \subseteq ScanEntitiesInTimeRange(last.arg[1], last.arg[2])
         /\ \A id \in DOMAIN last.val[1] : last.val[1][id] = entityPathsById[id]

\* C12: in every reachable state and for every t, getEntityIdsAtTime(t) is a
\* subset of the key set of getEntitiesInTimeRange(t, t) asked in that state.
C12_PointWithinDegenerateRange ==
    [][(last'.op = "getEntityIdsAtTime" /\ last'.ret = "value")
         => last'.val[1] \subseteq
              DOMAIN getEntitiesInTimeRange(Cur, last'.arg, last'.arg)]_vars

\* The point query rebuilt an index without buckets and found an entity that
\* the range query, which reads the index as it is, does not return.
C12_Witness ==
    /\ last.op = "getEntityIdsAtTime"
    /\ last.ret = "value"
    /\ last.val[1] # {}
    /\ \E i \in 1..Len(last.log) : last.log[i].e = "rebuildIndex"

\* C12 for the range query asked after the point query has returned.
C12_PointThenRange ==
    (last.op = "getEntityIdsAtTime" /\ last.ret = "value")
      => last.val[1] \subseteq DOMAIN getEntitiesInTimeRange(Cur, last.arg, last.arg)

(***************************************************************************)
(* The state of an entity at a time.                                       *)
(***************************************************************************)
\* getEntityStateAtTime(id, t) has just returned for a loaded entity.
AskedStateOf(id, t) ==
    /\ last.op = "getEntityStateAtTime"
    /\ last.arg = <<id, t>>
    /\ MapHas(entityPathsById, id)

IsSorted(path) == \A i \in 1..(Len(path) - 1) : path[i].clock <= path[i + 1].clock

\* C13: for every loaded entity and every point p of its path,
\* getEntityStateAtTime(id, p.clock) returns exactly the state, x and y of a
\* path point whose clock equals p.clock; nothing is interpolated.
C13_ExactPointTimesVerbatim ==
    \A id \in DOMAIN entityPathsById :
       LET path == entityPathsById[id].path
       IN  \A i \in 1..Len(path) :
              AskedStateOf(id, path[i].clock)
                => \E j \in 1..Len(path) :
                      /\ path[j].clock = path[i].clock
                      /\ last.val = Some([state |-> path[j].state,
                                          x |-> [n |-> path[j].x, d |-> 1],
                                          y |-> [n |-> path[j].y, d |-> 1]])

\* getEntityStateAtTime was asked at the clock of a point that is not the
\* first of its path, and returned that point.
C13_Witness ==
    /\ last.op = "getEntityStateAtTime"
    /\ last.ret = "value"
    /\ MapHas(entityPathsById, last.arg[1])
    /\ \E i \in 2..Len(entityPathsById[last.arg[1]].path) :
          /\ entityPathsById[last.arg[1]].path[i].clock = last.arg[2]
          /\ last.val[1].state = entityPathsById[last.arg[1]].path[i].state

\* b + (t - tb) / (ta - tb) * (a - b), every operation on numbers.
LinearBetween(b, a, tb, ta, t) ==
    Plus([n |-> b, d |-> 1],
         Times(Divide(Minus([n |-> t, d |-> 1], [n |-> tb, d |-> 1]),
                      Minus([n |-> ta, d |-> 1], [n |-> tb, d |-> 1])),
               Minus([n |-> a, d |-> 1], [n |-> b, d |-> 1])))

\* C14: for t strictly between two consecutive path points b and a,
\* getEntityStateAtTime returns state = b.state (never a.state),
\* x = b.x + (t - b.clock)/(a.clock - b.clock) * (a.x - b.x) and likewise y;
\* E1 with points (clock 0, x 0, y 0, idle) and (clock 10, x 10, y 0, moving)
\* yields {state: idle, x: 5, y: 0} at t = 5.
C14_StateConstantPositionLinear ==
    /\ \A id \in DOMAIN entityPathsById :
          LET path == entityPathsById[id].path
          IN  \A i \in 1..(Len(path) - 1) :
                 (/\ AskedStateOf(id, last.arg[2])
                  /\ path[i].clock < last.arg[2]
                  /\ last.arg[2] < path[i + 1].clock)
                   => last.val
                        = Some([state |-> path[i].state,
                                x |-> LinearBetween(path[i].x, path[i + 1].x, path[i].clock,
                                                    path[i + 1].clock, last.arg[2]),
                                y |-> LinearBetween(path[i].y, path[i + 1].y, path[i].clock,
                                                    path[i + 1].clock, last.arg[2])])
    /\ (/\ AskedStateOf("E1", 5)
        /\ entityPathsById["E1"].path
             = << [clock |-> 0, x |-> 0, y |-> 0, event |-> None, state |-> "idle"],
                  [clock |-> 10, x |-> 10, y |-> 0, event |-> Some("ASP"), state |-> "moving"] >>)
         => last.val = Some([state |-> "idle", x |-> [n |-> 5, d |-> 1], y |-> [n |-> 0, d |-> 1]])

\* getEntityStateAtTime("E1", 5) returned {idle, 5, 0} between the points at
\* clock 0 and clock 10.
C14_Witness ==
    /\ AskedStateOf("E1", 5)
    /\ last.val = Some([state |-> "idle", x |-> [n |-> 5, d |-> 1], y |-> [n |-> 0, d |-> 1]])
    /\ Bracket(entityPathsById["E1"].path, 5) = 1

\* C15: getEntityStateAtTime(id, t) returns undefined when id is not loaded,
\* when the path is empty, or when t < path[0].clock or t > path[last].clock,
\* and a defined result for every t in the closed interval of a loaded entity
\* with a sorted non-empty path.
C15_LookupMissesAreValues ==
    last.op = "getEntityStateAtTime"
      => IF ~MapHas(entityPathsById, last.arg[1]) THEN last.ret = "undefined"
         ELSE LET path == entityPathsById[last.arg[1]].path
                  t == last.arg[2]
              IN  IF Len(path) = 0 THEN last.ret = "undefined"
                  ELSE IF t < path[1].clock \/ t > path[Len(path)].clock
                  THEN last.ret = "undefined"
                  ELSE IsSorted(path) => last.ret = "value"

\* getEntityStateAtTime returned undefined for a loaded entity with a path,
\* asked after the last point of the path.
C15_Witness ==
    /\ last.op = "getEntityStateAtTime"
    /\ last.ret = "undefined"
    /\ MapHas(entityPathsById, last.arg[1])
    /\ Len(entityPathsById[last.arg[1]].path) > 0
    /\ last.arg[2] > entityPathsById[last.arg[1]].path[Len(entityPathsById[last.arg[1]].path)].clock

(***************************************************************************)
(* Statistics.                                                             *)
(***************************************************************************)
\* The type, componentId and metricName a statistics document records: in its
\* metadata, or at the top level when it has no metadata.
RecordedTriple(doc) ==
    IF "metadata" \in DOMAIN doc
    THEN <<doc.metadata.type, doc.metadata.componentId, doc.metadata.metricName>>
    ELSE <<doc.type, doc.componentId, doc.metricName>>

\* The statistics files of the active replication that were loaded.
LoadedActiveStatFiles ==
    IF getActiveReplication(Cur) = None THEN {}
    ELSE ActiveStatFiles(activeReplicationId[1]) \cap DOMAIN loadedStatisticsFiles

StoredStatistics == {statisticsData[k] : k \in DOMAIN statisticsData}

\* C16: after an activation, every statistics document that was loaded is
\* returned by getStatistic(type, componentId, metricName) for the triple its
\* metadata records, and two series with different triples never occupy the
\* same key: neither overwrites the other.
C16_StatisticUnderItsOwnKey ==
    /\ last.op = "getStatistic"
         => \A p \in LoadedActiveStatFiles :
               RecordedTriple(ContentOf(Cur, loadedStatisticsFiles[p])) = last.arg
                 => last.val = Some(loadedStatisticsFiles[p])
    /\ \A p, q \in LoadedActiveStatFiles :
          RecordedTriple(ContentOf(Cur, loadedStatisticsFiles[p]))
            # RecordedTriple(ContentOf(Cur, loadedStatisticsFiles[q]))
          => {loadedStatisticsFiles[p], loadedStatisticsFiles[q]} \subseteq StoredStatistics

\* After the activation of replication 1 both of its statistics files are
\* loaded, one key holds one of them, and getStatistic for the triple of a
\* loaded document returned undefined.
C16_Witness ==
    /\ last.op = "getStatistic"
    /\ last.ret = "undefined"
    /\ Cardinality(LoadedActiveStatFiles) = 2
    /\ DOMAIN statisticsData = {<<"undefined", "undefined", "undefined">>}
    /\ \E p \in LoadedActiveStatFiles :
          RecordedTriple(ContentOf(Cur, loadedStatisticsFiles[p])) = last.arg

\* C16 for documents that state type, componentId and metricName at the top
\* level, where loadStatisticsFile reads them.
C16_FlatDocumentsFound ==
    last.op = "getStatistic"
      => \A p \in LoadedActiveStatFiles :
            (/\ "metadata" \notin DOMAIN ContentOf(Cur, loadedStatisticsFiles[p])
             /\ RecordedTriple(ContentOf(Cur, loadedStatisticsFiles[p])) = last.arg)
              => last.val = Some(loadedStatisticsFiles[p])

\* getStatisticValueAtTime has just returned for a statistic that is stored.
AskedValue ==
    /\ last.op = "getStatisticValueAtTime"
    /\ MapHas(statisticsData, <<last.arg[1], last.arg[2], last.arg[3]>>)

\* The series of that statistic, the time and the interpolate flag asked.
AskedSeries ==
    ContentOf(Cur, statisticsData[<<last.arg[1], last.arg[2], last.arg[3]>>]).timeSeries
AskedTime == last.arg[4]
AskedInterpolate == last.arg[5]

AscendingByTime(series) ==
    \A i \in 1..(Len(series) - 1) : series[i].time <= series[i + 1].time

ValueOf(point) == [n |-> point.value, d |-> 1]

\* C17: for a non-empty series sorted ascending by time,
\* getStatisticValueAtTime returns exactly the first point's value for every t
\* at or before the first point's time and exactly the last point's value for
\* every t at or after the last point's time, with or without interpolation.
C17_Clamping ==
    (AskedValue /\ Len(AskedSeries) > 0 /\ AscendingByTime(AskedSeries))
      => /\ AskedTime <= AskedSeries[1].time
              => last.val = Some(ValueOf(AskedSeries[1]))
         /\ AskedTime >= AskedSeries[Len(AskedSeries)].time
              => last.val = Some(ValueOf(AskedSeries[Len(AskedSeries)]))

\* The series ends with two points at the same time; asked at that time,
\* getStatisticValueAtTime returned the value of the first of them.
C17_Witness ==
    /\ AskedValue
    /\ Len(AskedSeries) > 1
    /\ AscendingByTime(AskedSeries)
    /\ AskedTime = AskedSeries[Len(AskedSeries)].time
    /\ AskedTime = AskedSeries[Len(AskedSeries) - 1].time
    /\ last.val = Some(ValueOf(AskedSeries[Len(AskedSeries) - 1]))
    /\ last.val # Some(ValueOf(AskedSeries[Len(AskedSeries)]))

\* C17 for the times strictly before the first and strictly after the last
\* point, and for a series whose times are strictly ascending.
C17_ClampingOutside ==
    (AskedValue /\ Len(AskedSeries) > 0)
      => /\ AskedTime < AskedSeries[1].time
              => last.val = Some(ValueOf(AskedSeries[1]))
         /\ AskedTime > AskedSeries[Len(AskedSeries)].time
              => last.val = Some(ValueOf(AskedSeries[Len(AskedSeries)]))
         /\ (\A i \in 1..(Len(AskedSeries) - 1) : AskedSeries[i].time < AskedSeries[i + 1].time)
              => /\ AskedTime = AskedSeries[1].time
                      => last.val = Some(ValueOf(AskedSeries[1]))
                 /\ AskedTime = AskedSeries[Len(AskedSeries)].time
                      => last.val = Some(ValueOf(AskedSeries[Len(AskedSeries)]))

\* The time asked is strictly inside the time span of the series.
AskedInside ==
    /\ AskedValue
    /\ Len(AskedSeries) > 0
    /\ AscendingByTime(AskedSeries)
    /\ AskedSeries[1].time < AskedTime
    /\ AskedTime < AskedSeries[Len(AskedSeries)].time

PointsAtAskedTime == {i \in 1..Len(AskedSeries) : AskedSeries[i].time = AskedTime}

\* C18: for t strictly inside the series' time span, getStatisticValueAtTime
\* with interpolate = true returns the value of the point whose time equals t
\* if one exists, and otherwise v0 + (t - t0)/(t1 - t0) * (v1 - v0) for the two
\* consecutive points bracketing t; for the series [(0,2),(10,8)] it returns 5
\* at t = 5.
C18_InterpolatedLookup ==
    /\ (AskedInside /\ AskedInterpolate)
         => IF PointsAtAskedTime # {}
            THEN \E i \in PointsAtAskedTime : last.val = Some(ValueOf(AskedSeries[i]))
            ELSE \E i \in 1..(Len(AskedSeries) - 1) :
                    /\ AskedSeries[i].time < AskedTime
                    /\ AskedTime < AskedSeries[i + 1].time
                    /\ last.val = Some(LinearBetween(AskedSeries[i].value, AskedSeries[i + 1].value,
                                                     AskedSeries[i].time, AskedSeries[i + 1].time,
                                                     AskedTime))
    /\ (/\ AskedValue
        /\ AskedSeries = << [time |-> 0, value |-> 2], [time |-> 10, value |-> 8] >>
        /\ AskedTime = 5
        /\ AskedInterpolate)
         => last.val = Some([n |-> 5, d |-> 1])

\* getStatisticValueAtTime(..., 5, true) returned 5 for the series
\* [(0,2),(10,8)].
C18_Witness ==
    /\ AskedInside
    /\ AskedInterpolate
    /\ AskedSeries = << [time |-> 0, value |-> 2], [time |-> 10, value |-> 8] >>
    /\ AskedTime = 5
    /\ last.val = Some([n |-> 5, d |-> 1])

\* |t - time| of the i-th point of the series asked.
AskedDistance(i) ==
    LET diff == Minus([n |-> AskedTime, d |-> 1], [n |-> AskedSeries[i].time, d |-> 1])
    IN  IF diff.n < 0 THEN [diff EXCEPT !.n = 0 - diff.n] ELSE diff

\* The lowest index among the points nearest to the time asked.
NearestIndex ==
    CHOOSE i \in 1..Len(AskedSeries) :
       /\ \A j \in 1..Len(AskedSeries) :
             AskedDistance(i).n * AskedDistance(j).d <= AskedDistance(j).n * AskedDistance(i).d
       /\ \A j \in 1..(i - 1) :
             AskedDistance(i).n * AskedDistance(j).d < AskedDistance(j).n * AskedDistance(i).d

\* C19: for t strictly inside the series' time span and not equal to any
\* point's time, getStatisticValueAtTime with interpolate = false returns the
\* value of the point minimising |t - time|, and of two points equally near the
\* one with the lower index; for the series [(0,2),(10,8)] it returns 2 at
\* t = 5.
C19_NearestPointLookup ==
    /\ (AskedInside /\ ~AskedInterpolate /\ PointsAtAskedTime = {})
         => last.val = Some(ValueOf(AskedSeries[NearestIndex]))
    /\ (/\ AskedValue
        /\ AskedSeries = << [time |-> 0, value |-> 2], [time |-> 10, value |-> 8] >>
        /\ AskedTime = 5
        /\ ~AskedInterpolate)
         => last.val = Some([n |-> 2, d |-> 1])

\* getStatisticValueAtTime(..., 5, false) returned 2 for the series
\* [(0,2),(10,8)]: both points are 5 away.
C19_Witness ==
    /\ AskedInside
    /\ ~AskedInterpolate
    /\ AskedSeries = << [time |-> 0, value |-> 2], [time |-> 10, value |-> 8] >>
    /\ AskedTime = 5
    /\ AskedDistance(1) = AskedDistance(2)
    /\ last.val = Some([n |-> 2, d |-> 1])

\* The segments (consecutive points with t0 < t1) that hold the time asked.
AskedSegments ==
    {i \in 1..(Len(AskedSeries) - 1) :
        /\ AskedSeries[i].time < AskedSeries[i + 1].time
        /\ AskedSeries[i].time <= AskedTime
        /\ AskedTime <= AskedSeries[i + 1].time}

\* a <= b on numbers.
AtMost(a, b) == a.n * b.d <= b.n * a.d

\* C20: for consecutive series points (t0, v0) and (t1, v1) with t0 < t1 and
\* all s, t with t0 <= s <= t <= t1, getStatisticValueAtTime(s) <=
\* getStatisticValueAtTime(t) when v0 <= v1 and >= when v0 >= v1
\* (interpolate = true), and every returned value lies between v0 and v1.
\* Here s is the time just asked and t every later time of the segment.
C20_InterpolationMonotonic ==
    (AskedValue /\ AskedInterpolate /\ last.val # None)
      => \A i \in AskedSegments :
            LET v0 == ValueOf(AskedSeries[i])
                v1 == ValueOf(AskedSeries[i + 1])
                atS == last.val[1]
            IN  /\ \/ AtMost(v0, atS) /\ AtMost(atS, v1)
                   \/ AtMost(v1, atS) /\ AtMost(atS, v0)
                /\ \A t \in AskedTime..AskedSeries[i + 1].time :
                      LET atT == ValueAtTime(AskedSeries, t, TRUE)[1]
                      IN  /\ AtMost(v0, v1) => AtMost(atS, atT)
                          /\ AtMost(v1, v0) => AtMost(atT, atS)

\* Asked strictly between two points, getStatisticValueAtTime returned a value
\* that is not between the values of the two points.
C20_Witness ==
    /\ AskedInside
    /\ AskedInterpolate
    /\ PointsAtAskedTime = {}
    /\ \E i \in AskedSegments :
          LET v0 == ValueOf(AskedSeries[i])
              v1 == ValueOf(AskedSeries[i + 1])
          IN  /\ ~(AtMost(v0, last.val[1]) /\ AtMost(last.val[1], v1))
              /\ ~(AtMost(v1, last.val[1]) /\ AtMost(last.val[1], v0))

\* The statistics object the call just made was answered from: None when
\* statisticsData has nothing under the key asked.
AskedStatistic ==
    IF MapHas(statisticsData, <<last.arg[1], last.arg[2], last.arg[3]>>)
    THEN Some(DocOf(statisticsData[<<last.arg[1], last.arg[2], last.arg[3]>>].path))
    ELSE None

\* The indices of the points of a series with start <= time <= end, and the
\* k-th of them in ascending order.
IndicesWithin(series, start, end) ==
    {i \in 1..Len(series) : start <= series[i].time /\ series[i].time <= end}

KthOf(indices, k) == CHOOSE i \in indices : Cardinality({j \in indices : j <= i}) = k

\* C21: getStatisticTimeSeriesForRange(key, start, end) returns exactly the
\* points of the series stored under key with start <= time <= end, in the
\* order of the series; the empty list when nothing is stored under key or
\* when start > end; and the call changes neither the stored statistics nor
\* anything else.
C21_SeriesRangeQuery ==
    [][last'.op = "getStatisticTimeSeriesForRange"
         => LET ret == last'.val[1]
                start == last'.arg[4]
                end == last'.arg[5]
                stat == getStatistic(Cur, last'.arg[1], last'.arg[2], last'.arg[3])
                series == DocOf(stat[1].path).timeSeries
                within == IndicesWithin(series, start, end)
            IN  /\ stat = None => ret = <<>>
                /\ start > end => ret = <<>>
                /\ stat # None
                     => /\ Len(ret) = Cardinality(within)
                        /\ \A k \in 1..Len(ret) : ret[k] = series[KthOf(within, k)]
                /\ UNCHANGED <<statisticsData, loadedStatisticsFiles, jsonCache,
                               entityPathsById, timelineIndex, readSeq, frames, calls>>]_vars

\* A window that starts at the time of the first point of a stored series and
\* ends before its last two points returned the first point only.
C21_Witness ==
    /\ last.op = "getStatisticTimeSeriesForRange"
    /\ AskedStatistic # None
    /\ Len(AskedStatistic[1].timeSeries) = 3
    /\ last.arg[4] = AskedStatistic[1].timeSeries[1].time
    /\ last.val = Some(<<AskedStatistic[1].timeSeries[1]>>)

\* C22: getStatisticSummary(key) returns the summary the loaded document
\* supplies: its min, max and mean are those of the document's summary, not
\* values computed from the points of the series.
C22_SummaryAsSupplied ==
    (last.op = "getStatisticSummary" /\ AskedStatistic # None)
      => /\ last.val # None
         /\ last.val[1].min = NumberOf(AskedStatistic[1].summary.min)
         /\ last.val[1].max = NumberOf(AskedStatistic[1].summary.max)
         /\ last.val[1].mean = NumberOf(AskedStatistic[1].summary.mean)

\* The summary of a stored statistic whose document supplies a summary that
\* differs from its points was asked for.
C22_Witness ==
    /\ last.op = "getStatisticSummary"
    /\ AskedStatistic # None
    /\ AskedStatistic[1].summary.count # Len(AskedStatistic[1].timeSeries)

\* What holds instead: the summary returned is computed from the points, min
\* and max are values of points of the series and no point lies outside them.
C22_ComputedFromPoints ==
    (last.op = "getStatisticSummary" /\ AskedStatistic # None /\ last.val # None)
      => LET series == AskedStatistic[1].timeSeries
         IN  /\ \E i \in DOMAIN series : last.val[1].min = NumberOf(series[i].value)
             /\ \E i \in DOMAIN series : last.val[1].max = NumberOf(series[i].value)
             /\ \A i \in DOMAIN series :
                  /\ LessEq(last.val[1].min, NumberOf(series[i].value))
                  /\ LessEq(NumberOf(series[i].value), last.val[1].max)

\* A discovery that listed the directory has returned.
DiscoveryDone ==
    /\ last.op = "discoverReplications"
    /\ last.ret = "undefined"
    /\ \A i \in DOMAIN last.log : last.log[i].e # "listFailed"
\* It was the first call the application made.
FirstDiscoveryDone == DiscoveryDone /\ used.ops = 1 /\ readSeq[ModelLayoutPath] > 0

\* The entries of the listing that are directories whose name matches the
\* naming pattern with id n.
ValidEntries(n) ==
    {i \in DOMAIN DirListing :
       DirListing[i].isDirectory /\ RepIdMatch(DirListing[i].name) = Some(n)}

ManifestOf(i) == ManifestPath(DirListing[i].name)

\* The manifest of entry i is in the cache; it was read and the read missed
\* or its text did not parse.
ManifestLoaded(i) == MapHas(jsonCache, ManifestOf(i))
ManifestFailed(i) == readSeq[ManifestOf(i)] > 0 /\ ~ManifestLoaded(i)

\* The ids a directory name can carry.
ListedIds == 0..9

C24_SharedDocumentsOnFirstManifest ==
    /\ (\/ readSeq[ModelLayoutPath] > 0
        \/ readSeq[VisualConfigPath] > 0
        \/ modelLayout # None
        \/ sharedVisualConfig # None) => availableReplications # EmptyMap
    /\ (FirstDiscoveryDone /\ used.faults = 0 /\ availableReplications # EmptyMap)
         => modelLayout # None /\ sharedVisualConfig # None

\* A first discovery has loaded manifests and both shared documents.
C24_Witness ==
    /\ FirstDiscoveryDone
    /\ availableReplications # EmptyMap
    /\ modelLayout # None
    /\ sharedVisualConfig # None

\* What holds instead: once the directory is listed both shared documents are
\* read before the first manifest is asked for, from fixed paths and past the
\* cache.
C24_SharedDocumentsReadFirst ==
    (FirstDiscoveryDone \/ \E c \in Slots : calls[c].op = "discover" /\ calls[c].pc = "manifest")
      => /\ readSeq[ModelLayoutPath] > 0
         /\ readSeq[VisualConfigPath] > 0
         /\ ~MapHas(jsonCache, ModelLayoutPath)
         /\ ~MapHas(jsonCache, VisualConfigPath)

\* C25: when a discovery has gone through the listing and two directories of it
\* with the same id both have their manifest loaded, the catalog holds for
\* that id the manifest of the one that comes later in the listing.
C25_DuplicateIdLaterWins ==
    DiscoveryDone
      => \A n \in ListedIds : \A i, j \in ValidEntries(n) :
           (i < j /\ ManifestLoaded(i) /\ ManifestLoaded(j))
             => /\ MapHas(availableReplications, n)
                /\ availableReplications[n].path # ManifestOf(i)
                /\ \E k \in ValidEntries(n) :
                     /\ availableReplications[n].path = ManifestOf(k)
                     /\ ManifestLoaded(k)
                     /\ \A l \in ValidEntries(n) : ManifestLoaded(l) => l <= k

\* The manifests of REP_1 and of rep_001 both loaded: id 1 has the manifest
\* of rep_001.
C25_Witness ==
    /\ FirstDiscoveryDone
    /\ ManifestLoaded(1) /\ ManifestLoaded(4)
    /\ RepIdMatch(DirListing[1].name) = RepIdMatch(DirListing[4].name)
    /\ availableReplications[1].path = ManifestOf(4)

\* The step is a call of setActiveReplication that the catalog accepted.
ActivationSucceeds == last'.op = "setActiveReplication" /\ IsCall /\ last'.ret # "false"

\* C26: the active id is undefined or a key of the catalog;
\* getActiveReplicationMetadata() returns the metadata of the manifest the
\* catalog holds for the active id; and it returns undefined until the first
\* activation succeeds and never after it.
C26_ActiveIsCatalogMember ==
    /\ [](\/ getActiveReplicationId(Cur) = None
          \/ MapHas(availableReplications, getActiveReplicationId(Cur)[1]))
    /\ [](getActiveReplicationMetadata(Cur) =
            IF activeReplicationId = None THEN None
            ELSE Some(DocOf(availableReplications[activeReplicationId[1]].path).metadata))
    /\ getActiveReplicationMetadata(Cur) = None
    /\ [][getActiveReplicationMetadata(Cur)' # None
            <=> (getActiveReplicationMetadata(Cur) # None \/ ActivationSucceeds)]_vars

\* Replication 2 was activated after replication 1: the metadata returned is
\* that of the manifest of rep_002.
C26_Witness ==
    /\ Activated(2)
    /\ MapHas(loadedStatisticsFiles, StatPath("rep_002", "queue"))
    /\ MapHas(jsonCache, StatPath("rep_001", "queue"))
    /\ getActiveReplicationMetadata(Cur) = Some(Manifest2.metadata)

\* C30: no read and no listing that fails makes an operation of the Storage
\* Reader throw, and neither discoverReplications nor setActiveReplication
\* ends with a rejection.
C30_NoIOFailureEscapes ==
    /\ \A i \in DOMAIN last.log : last.log[i].e # "readJSONFileThrew"
    /\ last.op \in {"discoverReplications", "setActiveReplication"} => last.ret # "rejected"

\* The read of the model layout failed during a discovery that went on to
\* its end.
C30_Witness ==
    /\ FirstDiscoveryDone
    /\ used.faults = 1
    /\ modelLayout = None
    /\ DOMAIN availableReplications = {1, 2}

\* What holds instead: discoverReplications never rejects, and
\* setActiveReplication rejects only over a batch document that cannot be
\* decoded, never over a read that failed.
C30_RejectedByDocumentOnly ==
    /\ last.op = "discoverReplications" => last.ret # "rejected"
    /\ last.ret = "rejected"
         => /\ ~FailedRead(last.log)
            /\ \E q \in DOMAIN loadedEntityPathBatches :
                 \/ "entities" \notin DOMAIN DocOf(q)
                 \/ \E i \in DOMAIN DocOf(q).entities : ~HasPath(DocOf(q).entities[i])

\* The step is a call of loadEntityPathsForTimeRange; the paths of the loads
\* it issues; no loaded batch, entity id or index entry is removed by the step.
RangeCall == last'.op = "loadEntityPathsForTimeRange" /\ IsCall
IssuedLoads == {f.path : f \in frames' \ frames}
NothingRemoved ==
    /\ DOMAIN loadedEntityPathBatches \subseteq DOMAIN loadedEntityPathBatches'
    /\ DOMAIN entityPathsById \subseteq DOMAIN entityPathsById'
    /\ \A b \in DOMAIN timelineIndex :
         b \in DOMAIN timelineIndex' /\ timelineIndex[b] \subseteq timelineIndex'[b]

\* The descriptors to load for a range that ends at endTime, out of a list.
Selected(files, endTime) ==
    {files[i].filePath : i \in {j \in DOMAIN files :
        /\ files[j].entryTimeStart <= endTime
        /\ ~MapHas(loadedEntityPathBatches, files[j].filePath)}}

RangeSteps == {"loadEntityPathsForTimeRange", "loadEntityPathBatch", "fetchAndParseJSON"}

\* C27: loadEntityPathsForTimeRange(start, end) issues a load for exactly the
\* batch files the manifest of the active replication lists with
\* entryTimeStart <= end that are not in the loaded-batch map; no step of it
\* removes a loaded batch, entity id or index entry; and without an active
\* replication it returns at once, issues no read and changes nothing.
C27_RangeLoadAdditiveSelective ==
    [][/\ RangeCall
            => IF activeReplicationId = None
               THEN /\ last'.ret = "undefined"
                    /\ last'.log = <<>>
                    /\ UNCHANGED <<loadedEntityPathBatches, entityPathsById, timelineIndex,
                                   jsonCache, readSeq, frames, calls>>
               ELSE IssuedLoads =
                      Selected(DocOf(availableReplications[activeReplicationId[1]].path)
                                 .entityPathDataFiles, last'.arg[2])
       /\ last'.op \in RangeSteps => NothingRemoved]_vars

\* Replication 1 is active with its first batch loaded, and a range that
\* reaches past the entry time of its second batch was asked for.
C27_Witness ==
    /\ last.op = "loadEntityPathsForTimeRange"
    /\ last.arg = <<0, 25>>
    /\ activeReplicationId = Some(1)
    /\ MapHas(loadedEntityPathBatches, BatchPath("rep_001", "batch_001_rep001"))
    /\ ~MapHas(loadedEntityPathBatches, BatchPath("rep_001", "batch_002_rep001"))

\* What holds instead: the loads issued are those of the descriptors the
\* manifest object holds since the discovery, and the rest of the claim.
C27_SelectsAmongHeldDescriptors ==
    [][/\ RangeCall
            => IF activeReplicationId = None
               THEN /\ last'.ret = "undefined"
                    /\ last'.log = <<>>
                    /\ UNCHANGED <<loadedEntityPathBatches, entityPathsById, timelineIndex,
                                   jsonCache, readSeq, frames, calls>>
               ELSE IssuedLoads =
                      Selected(ContentOf(Cur, availableReplications[activeReplicationId[1]])
                                 .entityPathDataFiles, last'.arg[2])
       /\ last'.op \in RangeSteps => NothingRemoved]_vars

\* Every batch a range load up to endTime selects has been loaded with
\* success: its entities are in the entity map.
SelectedAllLoaded(endTime) ==
    LET files == ContentOf(Cur, availableReplications[activeReplicationId[1]]).entityPathDataFiles
    IN  \A i \in DOMAIN files :
          files[i].entryTimeStart <= endTime
            => /\ EntityIdsOfDoc(DocOf(files[i].filePath)) # {}
               /\ EntityIdsOfDoc(DocOf(files[i].filePath)) \subseteq DOMAIN entityPathsById

\* C28: when a call loadEntityPathsForTimeRange(start, end) has returned with
\* every batch it selected loaded, a second call with the same arguments
\* issues no read and no load and leaves the loaded-batch map, the entity map
\* and the timeline index as they are.
C28_RangeLoadIdempotent ==
    [][(/\ last.op = "loadEntityPathsForTimeRange"
        /\ last.ret = "undefined"
        /\ activeReplicationId # None
        /\ RangeCall
        /\ last'.arg = last.arg
        /\ SelectedAllLoaded(last.arg[2]))
         => /\ NoRead(last'.log)
            /\ frames' = frames
            /\ UNCHANGED <<loadedEntityPathBatches, entityPathsById, timelineIndex,
                           readSeq, jsonCache>>]_vars

\* The batch of the active replication failed to load in the activation, a
\* range load then read and merged it, and the range load was called again.
C28_Witness ==
    /\ last.op = "loadEntityPathsForTimeRange"
    /\ last.ret = "pending"
    /\ last.log = <<>>
    /\ used = [ops |-> 3, faults |-> 1]
    /\ activeReplicationId # None
    /\ SelectedAllLoaded(last.arg[2])
    /\ \E p \in DOMAIN loadedEntityPathBatches : readSeq[p] = 2

\* The step ends a loadEntityPathBatch without a batch: the file could not be
\* read or parsed, or its document could not be decoded.
BatchLoadFailed ==
    last'.op = "loadEntityPathBatch" /\ last'.ret \in {"undefined", "rejected"}

\* C29: a loadEntityPathBatch that fails adds no entity to the entity map or
\* the timeline index and does not record the file as loaded; the next load
\* of the same file is attempted again.
C29_FailedBatchRegistersNothing ==
    [][/\ BatchLoadFailed
            => /\ entityPathsById' = entityPathsById
               /\ timelineIndex' = timelineIndex
               /\ ~MapHas(loadedEntityPathBatches', last'.arg)
       /\ (/\ last.op = "loadEntityPathBatch"
           /\ last.ret \in {"undefined", "rejected"}
           /\ last'.op = "loadEntityPathBatch"
           /\ IsCall
           /\ last'.arg = last.arg)
            => last'.ret = "pending"]_vars

\* The load of the batch whose second entity has no path was rejected: the
\* file is recorded as loaded and its first entity is in the entity map.
C29_Witness ==
    /\ last.op = "loadEntityPathBatch"
    /\ last.ret = "rejected"
    /\ MapHas(loadedEntityPathBatches, last.arg)
    /\ "E5" \in DOMAIN entityPathsById

\* What holds instead: a batch file that could not be read or parsed
\* registers nothing and its next load is attempted again.
C29_UnreadableRegistersNothing ==
    [][/\ (last'.op = "loadEntityPathBatch" /\ last'.ret = "undefined")
            => /\ entityPathsById' = entityPathsById
               /\ timelineIndex' = timelineIndex
               /\ ~MapHas(loadedEntityPathBatches', last'.arg)
       /\ (/\ last.op = "loadEntityPathBatch"
           /\ last.ret = "undefined"
           /\ last'.op = "loadEntityPathBatch"
           /\ IsCall
           /\ last'.arg = last.arg)
            => last'.ret = "pending"]_vars

\* The ids a full rebuild files under bucket b: the loaded ids whose path is
\* not empty and spans b.
SpanningIds(b) ==
    {id \in DOMAIN entityPathsById :
       /\ Len(entityPathsById[id].path) # 0
       /\ BucketOf(entityPathsById[id].path[1].clock) <= b
       /\ b <= BucketOf(entityPathsById[id].path[Len(entityPathsById[id].path)].clock)}

\* The set the index holds for bucket b; a bucket without an entry holds none.
IndexEntry(b) == IF MapHas(timelineIndex, b) THEN timelineIndex[b] ELSE {}

\* The buckets an entry or a loaded path can name.
KnownBuckets ==
    DOMAIN timelineIndex \cup UNION {BucketsOf(entityPathsById[id]) : id \in DOMAIN entityPathsById}

\* A batch merge, a range load or an activation has just completed.
LoadCompleted ==
    \/ /\ last.op = "loadEntityPathBatch"
       /\ last.ret = "value"
       /\ \E i \in DOMAIN last.log : last.log[i].e = "batchMerged"
    \/ last.op = "loadEntityPathsForTimeRange" /\ last.ret = "undefined"
    \/ last.op = "loadEntityPathDataForActiveReplication" /\ last.ret = "true"
    \/ last.op = "setActiveReplication" /\ last.ret = "true"

\* C31: after every completed batch merge, range load and activation the
\* timeline index equals a full rebuild: the entry of every bucket b is
\* exactly the set of loaded ids whose non-empty path spans b, with no stale
\* id, also after a later batch replaced the path of a loaded id.
C31_IndexEqualsFullRebuild ==
    LoadCompleted => \A b \in KnownBuckets : IndexEntry(b) = SpanningIds(b)

\* Replication 1 was activated and the batch of rep_002 was merged after it:
\* E1, loaded with a path over buckets 0 and 1, now has the empty path.
C31_Witness ==
    /\ last.op = "loadEntityPathBatch"
    /\ last.ret = "value"
    /\ activeReplicationId = Some(1)
    /\ MapHas(entityPathsById, "E1")
    /\ Len(entityPathsById["E1"].path) = 0
    /\ MapHas(entityPathsById, "E3")

\* What holds instead: after a completed load every bucket holds at least
\* the ids of a full rebuild, and right after an activation exactly those.
C31_IndexCoversRebuild ==
    /\ LoadCompleted => \A b \in KnownBuckets : SpanningIds(b) \subseteq IndexEntry(b)
    /\ (last.op = "setActiveReplication" /\ last.ret = "true")
         => \A b \in KnownBuckets : IndexEntry(b) = SpanningIds(b)

\* The frame is a loaded batch or statistics file that an activation waits
\* for, and the file is one of another replication than the active one: the
\* activation that asked for it was superseded.
SupersededLoad(f) ==
    /\ f.kind \in {"batch", "stat"}
    /\ f.st = "fetched"
    /\ f.val # None
    /\ f.owner # 0
    /\ calls[f.owner].op = "activate"
    /\ activeReplicationId # None
    /\ f.path[2] # DirOf(activeReplicationId[1])

\* C32: activations are serialized: when setActiveReplication(B) is issued
\* while setActiveReplication(A) still waits on its reads, no batch or
\* statistics merge of A's activation lands after B's clear, so that when
\* both have completed the entities and statistics are exactly those of B.
C32_ActivationsSerialized ==
    [][\A f \in frames \ frames' :
          SupersededLoad(f) => /\ entityPathsById' = entityPathsById
                               /\ statisticsData' = statisticsData]_vars

\* setActiveReplication(2) was issued while setActiveReplication(1) waited
\* for its batch; both have returned, replication 2 is active and E2, which
\* only replication 1 has, is loaded.
C32_Witness ==
    /\ \A c \in Slots : calls[c] = Idle
    /\ frames = {}
    /\ last.op = "setActiveReplication"
    /\ last.ret = "true"
    /\ activeReplicationId = Some(2)
    /\ "E2" \in IdsOnlyIn(1, 2)
    /\ "E2" \in getLoadedEntityIds(Cur)

\* The entity paths of the documents of a set of batch files.
EntityPathsOfFiles(files) ==
    UNION {{ToEntityPath(DocOf(p).entities[i]) : i \in DOMAIN DocOf(p).entities} :
             p \in {q \in files : "entities" \in DOMAIN DocOf(q)}}

\* The batch files recorded as loaded are files of one replication directory.
LoadedOfOneReplication ==
    \E dirName \in {DirListing[i].name : i \in DOMAIN DirListing} :
        DOMAIN loadedEntityPathBatches \subseteq BatchFilesOf(dirName)

\* The step changes an entity of the entity map (a clear apart).
EntitiesMerged == entityPathsById' # entityPathsById /\ entityPathsById' # EmptyMap

C34_EveryLoadCompletes ==
    /\ \A c \in Slots : (calls[c].op # "none") ~> (calls[c].op = "none")
    /\ [][\A c \in Slots :
            (calls[c].op # "none" /\ calls'[c].op = "none")
              => /\ last'.op = CallName(calls[c])
                 /\ last'.ret \in {"true", "undefined", "rejected"}]_vars

\* An activation has reported a failure: the batch of the replication it
\* activated could not be decoded, and no call is pending.
C34_Witness ==
    /\ last.op = "setActiveReplication"
    /\ last.ret = "rejected"
    /\ \A c \in Slots : calls[c].op = "none"

\* The loaded ids whose path has no point.
EmptyPathIds == {id \in DOMAIN entityPathsById : Len(entityPathsById[id].path) = 0}

\* C35: empty paths never cause an out-of-bounds access: getEntityIdsAtTime,
\* getEntitiesInTimeRange and getEntityStateAtTime do not throw and treat an
\* entity whose path is empty as not found, also after a later batch replaced
\* a non-empty path of an id by an empty one.
C35_EmptyPathIsNotFound ==
    /\ last.op = "getEntityIdsAtTime"
         => /\ last.ret = "value"
            /\ last.val[1] \cap EmptyPathIds = {}
    /\ last.op = "getEntitiesInTimeRange"
         => /\ last.ret = "value"
            /\ DOMAIN last.val[1] \cap EmptyPathIds = {}
    /\ (last.op = "getEntityStateAtTime" /\ last.arg[1] \in EmptyPathIds)
         => last.val = None

\* Replication 1 was activated, the batch of rep_002 replaced the path of E1
\* by the empty path, and getEntityIdsAtTime was asked for a time of a bucket
\* that still names E1: it threw.
C35_Witness ==
    /\ last.op = "getEntityIdsAtTime"
    /\ last.ret = "threw"
    /\ activeReplicationId = Some(1)
    /\ "E1" \in EmptyPathIds
    /\ "E1" \in IndexEntry(BucketOf(last.arg))

\* What holds instead: getEntitiesInTimeRange and getEntityStateAtTime treat
\* an entity with an empty path as not found, and getEntityIdsAtTime does so
\* when the index names no such entity.
C35_RangeAndStateSkipEmptyPaths ==
    /\ (last.op = "getEntityIdsAtTime" /\ EmptyPathIds \cap IndexedIds = {})
         => /\ last.ret = "value"
            /\ last.val[1] \cap EmptyPathIds = {}
    /\ last.op = "getEntitiesInTimeRange"
         => /\ last.ret = "value"
            /\ DOMAIN last.val[1] \cap EmptyPathIds = {}
    /\ (last.op = "getEntityStateAtTime" /\ last.arg[1] \in EmptyPathIds)
         => last.val = None

\* The manifest object registered for id, as the program sees it, and the
\* document its file declared.
RegisteredManifest(id) == ContentOf(Cur, availableReplications[id])
DeclaredManifest(id) == DocOf(availableReplications[id].path)

\* C36: a manifest is immutable once loaded: the manifest registered in the
\* catalog keeps the metadata, entityPathDataFiles and statisticsDataFiles
\* its document declared, through discovery and every later operation, and
\* no operation removes a registered replication.
C36_ManifestImmutable ==
    /\ [](\A id \in DOMAIN availableReplications :
            /\ RegisteredManifest(id).metadata = DeclaredManifest(id).metadata
            /\ RegisteredManifest(id).entityPathDataFiles
                 = DeclaredManifest(id).entityPathDataFiles
            /\ RegisteredManifest(id).statisticsDataFiles
                 = DeclaredManifest(id).statisticsDataFiles)
    /\ [][DOMAIN availableReplications \subseteq DOMAIN availableReplications']_vars

\* The manifest of rep_001 is registered for replication 1: its document
\* declares two batch files and the registered object names one.
C36_Witness ==
    /\ MapHas(availableReplications, 1)
    /\ availableReplications[1].path = ManifestPath("rep_001")
    /\ Len(DeclaredManifest(1).entityPathDataFiles) = 2
    /\ Len(RegisteredManifest(1).entityPathDataFiles) = 1

\* What holds instead: the registered manifest keeps the metadata and the
\* statisticsDataFiles its document declared, its entityPathDataFiles is the
\* one descriptor discovery assigns, and no registered replication is removed.
C36_MetadataAndStatisticsKept ==
    /\ [](\A id \in DOMAIN availableReplications :
            /\ RegisteredManifest(id).metadata = DeclaredManifest(id).metadata
            /\ RegisteredManifest(id).statisticsDataFiles
                 = DeclaredManifest(id).statisticsDataFiles
            /\ RegisteredManifest(id).entityPathDataFiles
                 = HardcodedFiles(DirOf(id), DeclaredManifest(id).metadata.duration))
    /\ [][DOMAIN availableReplications \subseteq DOMAIN availableReplications']_vars

\* The series the statistics queries can return: for every key of
\* getAvailableStatistics() the object statisticsData holds, which is what
\* getStatistic returns for the triple of that key.
VisibleStatistics == {statisticsData[k] : k \in getAvailableStatistics(Cur)}

\* The file of the series is a statistics file of the directory of the
\* replication getActiveReplicationId() reports.
LoadedForActive(series) ==
    /\ getActiveReplicationId(Cur) # None
    /\ series.path[2] = DirOf(getActiveReplicationId(Cur)[1])

\* C37: no stale statistics are visible under a new active id: in every
\* state, the suspension points inside an activation included, every series
\* getAvailableStatistics and getStatistic return was loaded for the
\* replication getActiveReplicationId() reports.
C37_NoStaleStatistics == \A series \in VisibleStatistics : LoadedForActive(series)

\* Replication 2 was activated to its end and setActiveReplication(1) waits
\* for its batch: the active id is 1 and getStatistic returns the queue
\* length series of replication 2.
C37_Witness ==
    /\ getActiveReplicationId(Cur) = Some(1)
    /\ \E c \in Slots : calls[c].op = "activate" /\ calls[c].arg = 1 /\ calls[c].pc = "paths"
    /\ getStatistic(Cur, "activity_metric", "act1", "queueLength") # None
    /\ getStatistic(Cur, "activity_metric", "act1", "queueLength")[1].path
         = StatPath("rep_002", "queue")

\* What holds instead: once setActiveReplication has started to load the
\* statistics, and after it returned, every visible series is one of the
\* active replication.
C37_FreshOnceStatisticsLoad ==
    (\/ last.op = "setActiveReplication" /\ last.ret = "true"
     \/ \E c \in Slots : calls[c].op = "activate" /\ calls[c].pc = "stats")
      => \A series \in VisibleStatistics : LoadedForActive(series)

\* C38: the bucketed getEntitiesInTimeRange returns the same id set as the
\* linear scan of the earlier AnimationData.getEntitiesInTimeRange, for every
\* start and end, with no ordering of the two assumed.
C38_RefinesLinearScan ==
    last.op = "getEntitiesInTimeRange"
      => /\ ~legacyGetEntitiesInTimeRange(Cur, last.arg[1], last.arg[2]).threw
         /\ DOMAIN last.val[1] = legacyGetEntitiesInTimeRange(Cur, last.arg[1], last.arg[2]).ids

\* The range (12, 8) was asked with E2 loaded and indexed (clocks 5..32): the
\* linear scan returns E2 and the bucketed query, whose loop runs over no
\* bucket, returns nothing.
C38_Witness ==
    /\ last.op = "getEntitiesInTimeRange"
    /\ last.arg[1] > last.arg[2]
    /\ "E2" \in IndexedIds
    /\ ~legacyGetEntitiesInTimeRange(Cur, last.arg[1], last.arg[2]).threw
    /\ "E2" \in legacyGetEntitiesInTimeRange(Cur, last.arg[1], last.arg[2]).ids
    /\ DOMAIN last.val[1] = {}

\* What holds instead: when the linear scan returns, the bucketed query
\* returns no id that the scan does not, and it returns the same set when
\* start <= end and every loaded entity with a path point is in the index.
C38_WithinLinearScan ==
    (/\ last.op = "getEntitiesInTimeRange"
     /\ ~legacyGetEntitiesInTimeRange(Cur, last.arg[1], last.arg[2]).threw)
      => /\ DOMAIN last.val[1]
              \subseteq legacyGetEntitiesInTimeRange(Cur, last.arg[1], last.arg[2]).ids
         /\ (/\ last.arg[1] <= last.arg[2]
             /\ \A b \in KnownBuckets : SpanningIds(b) \subseteq IndexEntry(b))
              => DOMAIN last.val[1]
                   = legacyGetEntitiesInTimeRange(Cur, last.arg[1], last.arg[2]).ids

\* The queries of the claim.
QueryOps == PureQueries \cup {"getEntityIdsAtTime"}

\* The timeline index is what a full rebuild from the entities gives.
IndexIsFullRebuild == \A b \in KnownBuckets : IndexEntry(b) = SpanningIds(b)

\* C39: queries are read-only: a query leaves the catalog, the active id, the
\* entity map, the loaded-batch map, the statistics maps and the cache
\* unchanged and issues no read; the only state it may write is the timeline
\* index, and then only to the value of a full rebuild from the current
\* entities; a query repeated in the state the first one left returns the
\* same result.
C39_QueriesReadOnly ==
    [][last'.op \in QueryOps
         => /\ UNCHANGED <<availableReplications, activeReplicationId, modelLayout,
                           sharedVisualConfig, patched, entityPathsById,
                           loadedEntityPathBatches, statisticsData, loadedStatisticsFiles,
                           jsonCache>>
            /\ UNCHANGED <<readSeq, readCount, frames, calls>>
            /\ \/ UNCHANGED timelineIndex
               \/ last'.op = "getEntityIdsAtTime" /\ IndexIsFullRebuild'
            /\ (last.op = last'.op /\ last.arg = last'.arg)
                 => (last'.ret = last.ret /\ last'.val = last.val)]_vars

\* getEntityIdsAtTime was asked when the index had no bucket and an entity
\* was loaded: the query rebuilt the index, which now names E5.
C39_Witness ==
    /\ last.op = "getEntityIdsAtTime"
    /\ \E i \in DOMAIN last.log : last.log[i].e = "rebuildIndex"
    /\ "E5" \in IndexedIds
    /\ IndexIsFullRebuild
====
